---- MODULE Spec2Model ----
(***************************************************************************)
(* Agent-fleet orchestration engine of the Spiralverse protocol:           *)
(*   AgentRegistry      (src/src/fleet/agent-registry.ts)                  *)
(*   TaskDispatcher     (src/unnamed/part_001, fleet/task-dispatcher)      *)
(*   GovernanceManager  (src/src/fleet/governance.ts)                      *)
(* Trust values are in hundredths: 0.5 is 50, 0.01 is 1, 0.05 is 5.        *)
(* An optional field of an options object is a set: {} when absent, {v}    *)
(* when given.  An id of 0 stands for undefined.                           *)
(* Four specifications share the registry: Spec runs the dispatcher,       *)
(* SpecGov the roundtable, SpecFleet both without task outcomes, and       *)
(* SpecTally a roundtable of up to MaxVoters participants.                 *)
(***************************************************************************)
EXTENDS Integers, Sequences, FiniteSets, TLC

\* ------------------------------------------------------------------ bounds
MaxAgents == 2
MaxTasks == 2
MaxAdminOps == 1
MaxReports == 2
MaxParticipants == 3
MaxSessions == 1
MaxTime == 3
MaxVoters == 6
MaxListeners == 2
MaxPads == 2
MaxSwarms == 2
MaxFluxOps == 3
MaxEnvelopes == 2
MaxVerifies == 3
MaxCrowd == 187

\* --------------------------------------------------------------- variables
VARIABLES
  agents,     \* AgentRegistry.agents: id -> FleetAgent
  agentSeq,   \* number of agent ids generated so far (ids are never reused)
  adminOps,   \* number of status updates, trust updates and removals applied so far
  reports,    \* number of completeTask, failTask and cancelTask calls so far
  tasks,      \* TaskDispatcher.tasks: id -> FleetTask (tasks are never deleted)
  taskQueue,  \* TaskDispatcher.taskQueue
  sessions,   \* GovernanceManager.sessions: id -> RoundtableSession (never deleted)
  now,        \* Date.now(), in units of 150 s
  events,     \* the events the last operation emitted, in order
  last,       \* the last operation: its name, arguments, outcome, and facts of its pre-state
  eventListeners, \* the subscribers of onEvent, in order: what each does with an event
  pads,       \* PollyPadManager.pads: id -> PollyPad
  swarms,     \* SwarmCoordinator.swarms: id -> SwarmConfig
  swarmPads,  \* SwarmCoordinator.swarmPads: id -> set of pad ids
  fluxParams, \* SwarmCoordinator.fluxParams
  fluxOps,    \* number of flux operations applied so far
  envelopes,  \* the signed RWP2 envelopes on the wire
  accepted    \* how many times verifyRWP2 has returned valid tongues for each envelope

\* the state of the registry, the dispatcher and the roundtable
fleetVars == <<agents, agentSeq, adminOps, reports, tasks, taskQueue, sessions, now, events, last>>

\* the registry, the dispatcher, the roundtable and the clock, which the queries
\* and the operations on pads and envelopes leave alone
fleetState == <<agents, agentSeq, adminOps, reports, tasks, taskQueue, sessions, now>>

\* the state of the pads and the swarms
swarmVars == <<pads, swarms, swarmPads, fluxParams, fluxOps>>

\* the state of the RWP2 channel
rwpVars == <<envelopes, accepted>>

vars == <<fleetVars, eventListeners, swarmVars, rwpVars>>

\* ------------------------------------------------------------------- types
TierOrder == <<"KO", "AV", "RU", "CA", "UM", "DR">>

\* tierOrder.indexOf(tier), counted from 1
TierIndex(tier) == CHOOSE i \in 1..Len(TierOrder) : TierOrder[i] = tier

GOVERNANCE_TIERS ==
  [KO |-> [minTrustScore |-> 10, requiredTongues |-> 1],
   AV |-> [minTrustScore |-> 30, requiredTongues |-> 2],
   RU |-> [minTrustScore |-> 50, requiredTongues |-> 3],
   CA |-> [minTrustScore |-> 70, requiredTongues |-> 4],
   UM |-> [minTrustScore |-> 85, requiredTongues |-> 5],
   DR |-> [minTrustScore |-> 95, requiredTongues |-> 6]]

PRIORITY_WEIGHTS == [critical |-> 4, high |-> 3, medium |-> 2, low |-> 1]

\* a ?? b
Coalesce(opt, default) == IF opt = {} THEN default ELSE CHOOSE x \in opt : TRUE

\* a || b for a number: absent and 0 both give the default
OrNum(opt, default) == IF opt = {} \/ opt = {0} THEN default ELSE CHOOSE x \in opt : TRUE

Ev(type, agentId, taskId, sessionId, info) ==
  [type |-> type, agentId |-> agentId, taskId |-> taskId, sessionId |-> sessionId, info |-> info]

RECURSIVE SumSeq(_)
SumSeq(s) == IF s = <<>> THEN 0 ELSE Head(s) + SumSeq(Tail(s))

RECURSIVE Pow10(_)
Pow10(k) == IF k = 0 THEN 1 ELSE 10 * Pow10(k - 1)

Min(a, b) == IF a < b THEN a ELSE b
Max(a, b) == IF a > b THEN a ELSE b

\* ---------------------------------------------------------- collaborators
\* TrustManager.computeTrustScore: deterministic in the vector; normalized is the
\* deviation (higher is worse), and above 0.7 the level is CRITICAL.
computeTrustScore(trustVector) ==
  LET normalized == 100 - (SumSeq(trustVector) \div Len(trustVector))
  IN [normalized |-> normalized,
      level |-> IF normalized > 70 THEN "CRITICAL"
                ELSE IF normalized > 50 THEN "LOW"
                ELSE IF normalized > 30 THEN "MEDIUM"
                ELSE "HIGH"]

\* ------------------------------------------------------------ AgentRegistry
DefaultTrustVector == <<50, 50, 50, 50, 50, 50>>

\* registerAgent, the agent record built at lines 73-92
NewAgent(options) ==
  LET trustVector == Coalesce(options.initialTrustVector, DefaultTrustVector)
  IN [capabilities |-> options.capabilities,
      status |-> "idle",
      trustVector |-> trustVector,
      trustScore |-> computeTrustScore(trustVector),
      maxConcurrentTasks |-> OrNum(options.maxConcurrentTasks, 3),
      currentTaskCount |-> 0,
      maxGovernanceTier |-> Coalesce(options.maxGovernanceTier, "RU"),
      tasksCompleted |-> 0,
      successNum |-> 1]

\* variant of the length test that accepts shorter vectors
TrustVectorAtMostSix(trustVector) == Len(trustVector) <= 6

\* the length test of registerAgent and updateTrustVector
TrustVectorValid(trustVector) == Len(trustVector) = 6

\* registerAgent on the registry map: [threw, agents, events]
RegisterAgentFn(ag, id, options) ==
  LET trustVector == Coalesce(options.initialTrustVector, DefaultTrustVector)
  IN IF id \in DOMAIN ag THEN [threw |-> TRUE, agents |-> ag, events |-> <<>>]
     ELSE IF ~TrustVectorValid(trustVector) THEN [threw |-> TRUE, agents |-> ag, events |-> <<>>]
     ELSE [threw |-> FALSE,
           agents |-> [a \in DOMAIN ag \cup {id} |-> IF a = id THEN NewAgent(options) ELSE ag[a]],
           events |-> <<Ev("agent_registered", id, 0, 0, "")>>]

\* variant of the guard that quarantines idle agents only
ShouldQuarantineIdle(level, status) == level = "CRITICAL" /\ status = "idle"

\* the guard of the auto-quarantine in updateTrustVector (line 227)
ShouldQuarantine(level, status) == level = "CRITICAL" /\ status # "quarantined"

\* updateTrustVector on the registry map: [threw, agents, events]
UpdateTrustVectorFn(ag, id, trustVector) ==
  IF id \notin DOMAIN ag THEN [threw |-> TRUE, agents |-> ag, events |-> <<>>]
  ELSE IF ~TrustVectorValid(trustVector) THEN [threw |-> TRUE, agents |-> ag, events |-> <<>>]
  ELSE LET score == computeTrustScore(trustVector)
           quarantine == ShouldQuarantine(score.level, ag[id].status)
       IN [threw |-> FALSE,
           agents |-> [ag EXCEPT ![id].trustVector = trustVector,
                                 ![id].trustScore = score,
                                 ![id].status = IF quarantine THEN "quarantined" ELSE @],
           events |-> <<Ev("trust_updated", id, 0, 0, score.level)>> \o
                      (IF quarantine
                       THEN <<Ev("agent_quarantined", id, 0, 0, "Critical trust level detected"),
                              Ev("security_alert", id, 0, 0, "Agent quarantined due to critical trust level")>>
                       ELSE <<>>)]

\* the trust perturbation of recordTaskCompletion (lines 267-275)
PerturbTrust(trustVector, success) ==
  [i \in DOMAIN trustVector |->
     IF success THEN Min(100, trustVector[i] + 1) ELSE Max(0, trustVector[i] - 5)]

\* the exponential moving average of recordTaskCompletion (alpha = 0.1):
\* successRate is successNum / 10^tasksCompleted, and
\* 0.1 * x + 0.9 * (n / 10^k) = (x * 10^k + 9 * n) / 10^(k+1)
SmoothSuccess(successNum, completedBefore, success) ==
  (IF success THEN Pow10(completedBefore) ELSE 0) + 9 * successNum

\* recordTaskCompletion on the registry map: [threw, agents, events]
RecordTaskCompletionFn(ag, id, success) ==
  IF id \notin DOMAIN ag THEN [threw |-> TRUE, agents |-> ag, events |-> <<>>]
  ELSE LET ag1 == [ag EXCEPT ![id].tasksCompleted = @ + 1,
                             ![id].currentTaskCount = Max(0, @ - 1),
                             ![id].successNum = SmoothSuccess(@, ag[id].tasksCompleted, success)]
           upd == UpdateTrustVectorFn(ag1, id, PerturbTrust(ag1[id].trustVector, success))
           a2  == upd.agents[id]
       IN [threw |-> FALSE,
           agents |-> [upd.agents EXCEPT ![id].status =
                         IF a2.currentTaskCount = 0 /\ a2.status = "busy" THEN "idle" ELSE @],
           events |-> upd.events]

\* AgentRegistry.assignTask on the registry map: [threw, agents, reason]
RegistryAssignTaskFn(ag, id) ==
  IF id \notin DOMAIN ag THEN [threw |-> TRUE, agents |-> ag, reason |-> "Agent not found"]
  ELSE IF ag[id].status \in {"suspended", "quarantined"}
       THEN [threw |-> TRUE, agents |-> ag, reason |-> "Agent cannot accept tasks"]
  ELSE IF ag[id].currentTaskCount >= ag[id].maxConcurrentTasks
       THEN [threw |-> TRUE, agents |-> ag, reason |-> "Agent is at maximum capacity"]
  ELSE [threw |-> FALSE,
        agents |-> [ag EXCEPT ![id].currentTaskCount = @ + 1, ![id].status = "busy"],
        reason |-> ""]

\* removeAgent on the registry map: [threw, removed, agents, events]
RemoveAgentFn(ag, id) ==
  IF id \notin DOMAIN ag THEN [threw |-> FALSE, removed |-> FALSE, agents |-> ag, events |-> <<>>]
  ELSE IF ag[id].currentTaskCount > 0
       THEN [threw |-> TRUE, removed |-> FALSE, agents |-> ag, events |-> <<>>]
  ELSE [threw |-> FALSE, removed |-> TRUE,
        agents |-> [a \in DOMAIN ag \ {id} |-> ag[a]],
        events |-> <<Ev("agent_removed", id, 0, 0, "")>>]

\* variant of the trust test that lets LOW trust reach RU
TrustPermitsLowToRU(level, tierIndex) ==
  /\ level # "CRITICAL"
  /\ ~(level = "LOW" /\ tierIndex > 2)
  /\ ~(level = "MEDIUM" /\ tierIndex > 3)

\* the trust test of getAgentsForTier (lines 168-170); tierIndex counts from 0
TrustPermits(level, tierIndex) ==
  /\ level # "CRITICAL"
  /\ ~(level = "LOW" /\ tierIndex > 1)
  /\ ~(level = "MEDIUM" /\ tierIndex > 3)

\* getAgentsForTier: the ids of the agents eligible for a governance tier
getAgentsForTier(ag, tier) ==
  {id \in DOMAIN ag :
     /\ ag[id].status \notin {"suspended", "quarantined"}
     /\ TierIndex(ag[id].maxGovernanceTier) >= TierIndex(tier)
     /\ TrustPermits(ag[id].trustScore.level, TierIndex(tier) - 1)}

\* ------------------------------------------------------------ TaskDispatcher
\* the default of timeoutMs, 300000 ms, in units of 150 s
DefaultTaskTimeout == 2

\* createTask, the task record built at lines 511-527
NewTask(options) ==
  LET tierReq == GOVERNANCE_TIERS[options.requiredTier]
  IN [requiredCapability |-> options.requiredCapability,
      requiredTier |-> options.requiredTier,
      priority |-> Coalesce(options.priority, "medium"),
      status |-> "pending",
      minTrustScore |-> Coalesce(options.minTrustScore, tierReq.minTrustScore),
      requiresApproval |-> Coalesce(options.requiresApproval, options.requiredTier \in {"DR", "UM"}),
      requiredApprovals |-> Coalesce(options.requiredApprovals, tierReq.requiredTongues),
      approvalVotes |-> <<>>,
      assignedAgentId |-> 0,
      timeoutMs |-> OrNum(options.timeoutMs, DefaultTaskTimeout),
      startedAt |-> {},
      retryCount |-> 0,
      maxRetries |-> Coalesce(options.maxRetries, 3)]

\* addToQueue
addToQueue(queue, id) ==
  IF \E i \in DOMAIN queue : queue[i] = id THEN queue ELSE Append(queue, id)

\* removeFromQueue: splices out the first occurrence
removeFromQueue(queue, id) ==
  IF \E i \in DOMAIN queue : queue[i] = id
  THEN LET idx == CHOOSE i \in DOMAIN queue : queue[i] = id /\ \A j \in 1..(i - 1) : queue[j] # id
       IN SubSeq(queue, 1, idx - 1) \o SubSeq(queue, idx + 1, Len(queue))
  ELSE queue

\* the trust an agent is credited with by findEligibleAgents: 1 - (normalized || 1)
EligibilityTrust(agent) ==
  100 - (IF agent.trustScore.normalized = 0 THEN 100 ELSE agent.trustScore.normalized)

\* variant of the filter without the trust test
IsEligibleWhateverTrust(agent, task) ==
  /\ task.requiredCapability \in agent.capabilities
  /\ agent.status \in {"idle", "busy"}
  /\ agent.currentTaskCount < agent.maxConcurrentTasks
  /\ TierIndex(agent.maxGovernanceTier) >= TierIndex(task.requiredTier)

\* the filter of findEligibleAgents
IsEligible(agent, task) ==
  /\ task.requiredCapability \in agent.capabilities
  /\ agent.status \in {"idle", "busy"}
  /\ agent.currentTaskCount < agent.maxConcurrentTasks
  /\ TierIndex(agent.maxGovernanceTier) >= TierIndex(task.requiredTier)
  /\ EligibilityTrust(agent) >= task.minTrustScore

findEligibleAgents(ag, task) == {id \in DOMAIN ag : IsEligible(ag[id], task)}

\* selectBestAgent: the score of an agent,
\*   40 * trust + 30 * successRate + 20 * availability + recency,
\* multiplied by 5 * 10^k * m * mOther so that two agents' scores compare as integers
\* (k at least the agent's tasksCompleted, m its maxConcurrentTasks).
\* recency is max(0, 10 - hoursSinceActive), which the clock decides.
ScoreScaled(agent, recency, k, mOther) ==
  LET trust == 100 - (IF agent.trustScore.normalized = 0 THEN 50 ELSE agent.trustScore.normalized)
      m == agent.maxConcurrentTasks
  IN 2 * trust * Pow10(k) * m * mOther
     + 150 * agent.successNum * Pow10(k - agent.tasksCompleted) * m * mOther
     + 100 * (m - agent.currentTaskCount) * Pow10(k) * mOther
     + 5 * recency * Pow10(k) * m * mOther

ScoreLess(ag, recency, a, b) ==
  LET k == Max(ag[a].tasksCompleted, ag[b].tasksCompleted)
  IN ScoreScaled(ag[a], recency[a], k, ag[b].maxConcurrentTasks)
       < ScoreScaled(ag[b], recency[b], k, ag[a].maxConcurrentTasks)

\* variant of selectBestAgent whose sort puts the latest-registered agent first
\* among those of maximal score
selectBestAgentLastFirst(ag, eligible, recency) ==
  CHOOSE a \in eligible :
    /\ \A b \in eligible : ~ScoreLess(ag, recency, a, b)
    /\ \A b \in eligible : b > a => ScoreLess(ag, recency, b, a)

\* selectBestAgent: the stable descending sort puts first the earliest-registered
\* agent among those of maximal score (the registry map iterates in id order)
selectBestAgent(ag, eligible, recency) ==
  CHOOSE a \in eligible :
    /\ \A b \in eligible : ~ScoreLess(ag, recency, a, b)
    /\ \A b \in eligible : b < a => ScoreLess(ag, recency, b, a)

\* the result of a dispatcher operation on the state st = [agents, tasks, taskQueue]
Result(st, evs, success, agent, reason) ==
  [agents |-> st.agents, tasks |-> st.tasks, taskQueue |-> st.taskQueue,
   events |-> evs, success |-> success, agent |-> agent, reason |-> reason]

\* executeAssignment
ExecuteAssignmentFn(st, t, a) ==
  LET r == RegistryAssignTaskFn(st.agents, a)
  IN IF r.threw THEN Result(st, <<>>, FALSE, 0, r.reason)
     ELSE Result([st EXCEPT !.agents = r.agents,
                            !.tasks[t].status = "running",
                            !.tasks[t].assignedAgentId = a,
                            !.tasks[t].startedAt = {now}],
                 <<Ev("task_assigned", a, t, 0, st.agents[a].trustScore.level),
                   Ev("task_started", a, t, 0, "")>>,
                 TRUE, a, "")

\* variant of the test of line 587 that lets a failed task through
IsPendingOrFailed(task) == task.status \in {"pending", "failed"}

\* the test of assignTask that the task is pending (line 587)
IsPending(task) == task.status = "pending"

\* variant of the test of line 602 that never asks for approval
NeedsApprovalNever(task) == FALSE

\* the test of assignTask that the task waits for approval (line 602)
NeedsApproval(task) == task.requiresApproval

\* assignTask
AssignTaskFn(st, t, recency) ==
  IF t \notin DOMAIN st.tasks THEN Result(st, <<>>, FALSE, 0, "Task not found")
  ELSE IF ~IsPending(st.tasks[t]) THEN Result(st, <<>>, FALSE, 0, "Task is not pending")
  ELSE LET eligible == findEligibleAgents(st.agents, st.tasks[t])
       IN IF eligible = {} THEN Result(st, <<>>, FALSE, 0, "No eligible agents available")
          ELSE LET bestAgent == selectBestAgent(st.agents, eligible, recency)
               IN IF NeedsApproval(st.tasks[t])
                  THEN Result([st EXCEPT !.tasks[t].status = "awaiting_approval",
                                         !.tasks[t].approvalVotes = <<>>],
                              <<Ev("task_assigned", bestAgent, t, 0, "awaiting_approval")>>,
                              TRUE, bestAgent, "Awaiting roundtable approval")
                  ELSE ExecuteAssignmentFn(st, t, bestAgent)

\* getPendingTasks: the queue's pending tasks, stably sorted by descending priority weight
getPendingTasks(st) ==
  LET pend == SelectSeq(st.taskQueue,
                        LAMBDA id : id \in DOMAIN st.tasks /\ st.tasks[id].status = "pending")
      weight(id) == PRIORITY_WEIGHTS[st.tasks[id].priority]
      WithWeight(w) == SelectSeq(pend, LAMBDA id : weight(id) = w)
  IN WithWeight(4) \o WithWeight(3) \o WithWeight(2) \o WithWeight(1)

\* autoAssignPendingTasks: assignTask on each task of the list, in order;
\* evs accumulates the events and n the number of successful results
RECURSIVE AutoAssignLoop(_, _, _, _, _)
AutoAssignLoop(st, pending, recency, evs, n) ==
  IF pending = <<>>
  THEN [agents |-> st.agents, tasks |-> st.tasks, taskQueue |-> st.taskQueue,
        events |-> evs, assigned |-> n]
  ELSE LET r == AssignTaskFn(st, Head(pending), recency)
       IN AutoAssignLoop([agents |-> r.agents, tasks |-> r.tasks, taskQueue |-> r.taskQueue],
                         Tail(pending), recency, evs \o r.events,
                         IF r.success THEN n + 1 ELSE n)

\* approveTask: [agents, tasks, taskQueue, events, success, agent, reason];
\* success is the boolean returned, agent the agent the task was assigned to (0 if none)
ApproveTaskFn(st, t, agentId) ==
  IF t \notin DOMAIN st.tasks \/ st.tasks[t].status # "awaiting_approval"
  THEN Result(st, <<>>, FALSE, 0, "not awaiting approval")
  ELSE IF \E i \in DOMAIN st.tasks[t].approvalVotes : st.tasks[t].approvalVotes[i] = agentId
  THEN Result(st, <<>>, FALSE, 0, "already voted")
  ELSE LET st1 == [st EXCEPT !.tasks[t].approvalVotes = Append(@, agentId)]
           task == st1.tasks[t]
           voteEv == <<Ev("roundtable_vote", agentId, t, 0, "approve")>>
       IN IF Len(task.approvalVotes) >= task.requiredApprovals
             /\ task.assignedAgentId \in DOMAIN st1.agents
          THEN LET r == ExecuteAssignmentFn(st1, t, task.assignedAgentId)
               IN Result(r, voteEv \o r.events, TRUE, r.agent, "")
          ELSE Result(st1, voteEv, TRUE, 0, "")

\* the result of an operation that may throw part-way: the state keeps what was
\* written before the throw
Thrown(st, evs) ==
  [agents |-> st.agents, tasks |-> st.tasks, taskQueue |-> st.taskQueue,
   events |-> evs, threw |-> TRUE]

Returned(st, evs) ==
  [agents |-> st.agents, tasks |-> st.tasks, taskQueue |-> st.taskQueue,
   events |-> evs, threw |-> FALSE]

\* completeTask
CompleteTaskFn(st, t) ==
  IF t \notin DOMAIN st.tasks THEN Thrown(st, <<>>)
  ELSE LET st1 == [st EXCEPT !.tasks[t].status = "completed"]
           a == st.tasks[t].assignedAgentId
       IN IF a = 0
          THEN Returned([st1 EXCEPT !.taskQueue = removeFromQueue(@, t)],
                        <<Ev("task_completed", 0, t, 0, "")>>)
          ELSE LET rec == RecordTaskCompletionFn(st1.agents, a, TRUE)
               IN IF rec.threw THEN Thrown(st1, <<>>)
                  ELSE Returned([st1 EXCEPT !.agents = rec.agents,
                                            !.taskQueue = removeFromQueue(@, t)],
                                rec.events \o <<Ev("task_completed", a, t, 0, "")>>)

\* variant of the retry test that allows one retry more
ShouldRetryOnceMore(retryCount, maxRetries) == retryCount <= maxRetries

\* the retry test of failTask (line 730), on the incremented retry count
ShouldRetry(retryCount, maxRetries) == retryCount < maxRetries

\* failTask
FailTaskFn(st, t) ==
  IF t \notin DOMAIN st.tasks THEN Thrown(st, <<>>)
  ELSE LET st1 == [st EXCEPT !.tasks[t].retryCount = @ + 1]
           a == st.tasks[t].assignedAgentId
       IN IF ShouldRetry(st1.tasks[t].retryCount, st1.tasks[t].maxRetries)
          THEN Returned([st1 EXCEPT !.tasks[t].status = "pending",
                                    !.tasks[t].assignedAgentId = 0,
                                    !.tasks[t].startedAt = {}],
                        <<Ev("task_failed", 0, t, 0, "retrying")>>)
          ELSE LET st2 == [st1 EXCEPT !.tasks[t].status = "failed"]
               IN IF a = 0
                  THEN Returned([st2 EXCEPT !.taskQueue = removeFromQueue(@, t)],
                                <<Ev("task_failed", 0, t, 0, "final")>>)
                  ELSE LET rec == RecordTaskCompletionFn(st2.agents, a, FALSE)
                       IN IF rec.threw THEN Thrown(st2, <<>>)
                          ELSE Returned([st2 EXCEPT !.agents = rec.agents,
                                                    !.taskQueue = removeFromQueue(@, t)],
                                        rec.events \o <<Ev("task_failed", a, t, 0, "final")>>)

\* cancelTask
CancelTaskFn(st, t) ==
  IF t \notin DOMAIN st.tasks THEN Thrown(st, <<>>)
  ELSE LET a == st.tasks[t].assignedAgentId
           st1 == [st EXCEPT !.tasks[t].status = "cancelled"]
           released ==
             IF a # 0 /\ a \in DOMAIN st.agents
             THEN LET count == Max(0, st.agents[a].currentTaskCount - 1)
                  IN [st.agents EXCEPT ![a].currentTaskCount = count,
                                       ![a].status = IF count = 0 THEN "idle" ELSE @]
             ELSE st.agents
       IN Returned([st1 EXCEPT !.agents = released, !.taskQueue = removeFromQueue(@, t)],
                   <<Ev("task_cancelled", a, t, 0, "")>>)

\* --------------------------------------------------------- GovernanceManager
\* the default session timeout, 300000 ms
DefaultTimeout == 2

\* ---- the arithmetic of Math.ceil(n * c) on JavaScript numbers (IEEE 754 binary64,
\* round to nearest, ties to even). A positive number is [hi, lo, exp]: its
\* significand of 53 bits is hi * 2^26 + lo, with hi of 27 bits and lo of 26, and
\* its value is significand * 2^exp; zero has the significand 0.
HalfBits == 26

LimbBits == 13

DoubleZero == [hi |-> 0, lo |-> 0, exp |-> 0]

\* the number next above [hi, lo, exp] at the same precision
NextUp(hi, lo, exp) ==
  IF lo + 1 < 2^HalfBits THEN [hi |-> hi, lo |-> lo + 1, exp |-> exp]
  ELSE IF hi + 1 < 2^(HalfBits + 1) THEN [hi |-> hi + 1, lo |-> 0, exp |-> exp]
  ELSE [hi |-> 2^HalfBits, lo |-> 0, exp |-> exp + 1]

\* rounding to nearest: the bit below the significand is guard, and sticky tells
\* whether anything lies below that bit; a tie goes to the even significand
RoundToDouble(hi, lo, exp, guard, sticky) ==
  IF guard = 1 /\ (sticky \/ lo % 2 = 1) THEN NextUp(hi, lo, exp)
  ELSE [hi |-> hi, lo |-> lo, exp |-> exp]

\* the least i with x * 2^i >= y
RECURSIVE ShiftTo(_, _)
ShiftTo(x, y) == IF x >= y THEN 0 ELSE 1 + ShiftTo(2 * x, y)

\* long division: the next bits digits of r / b and the remainder left
DivStep(r, b, bits) == [q |-> (r * 2^bits) \div b, r |-> (r * 2^bits) % b]

\* num / den of two integers below 2^17, den positive
DoubleDiv(num, den) ==
  IF num = 0 THEN DoubleZero
  ELSE LET up == ShiftTo(num, den)
           down == IF num < den THEN 0
                   ELSE LET i == ShiftTo(den, num)
                        IN IF den * 2^i = num THEN i ELSE i - 1
           a == num * 2^up
           b == den * 2^down
           s1 == DivStep(a - b, b, LimbBits)
           s2 == DivStep(s1.r, b, LimbBits)
           s3 == DivStep(s2.r, b, LimbBits)
           s4 == DivStep(s3.r, b, LimbBits)
           g == DivStep(s4.r, b, 1)
       IN RoundToDouble(2^HalfBits + s1.q * 2^LimbBits + s2.q, s3.q * 2^LimbBits + s4.q,
                        down - up - 2 * HalfBits, g.q, g.r # 0)

\* the number of bits of a positive integer
RECURSIVE BitLength(_)
BitLength(n) == IF n = 0 THEN 0 ELSE 1 + BitLength(n \div 2)

\* n * d for an integer n, 0 <= n < 2^13 (exact as a number), and a number d
DoubleMul(n, d) ==
  IF n = 0 \/ d = DoubleZero THEN DoubleZero
  ELSE LET limb == 2^LimbBits
           p0 == n * (d.lo % limb)
           p1 == n * (d.lo \div limb) + (p0 \div limb)
           p2 == n * (d.hi % limb) + (p1 \div limb)
           p3 == n * (d.hi \div limb) + (p2 \div limb)
           low == (p1 % limb) * limb + (p0 % limb)
           mid == p2 % limb
           e == BitLength(p3) - (LimbBits + 1)
           dropped == low % 2^e
       IN IF e = 0 THEN [hi |-> p3 * limb + mid, lo |-> low, exp |-> d.exp]
          ELSE RoundToDouble(p3 * 2^(LimbBits - e) + (mid \div 2^e),
                             (mid % 2^e) * 2^(HalfBits - e) + (low \div 2^e),
                             d.exp + e,
                             dropped \div 2^(e - 1), dropped % 2^(e - 1) # 0)

\* Math.ceil of a number d, 0 <= d < 2^30
DoubleCeil(d) ==
  LET f == -d.exp
  IN IF d = DoubleZero THEN 0
     ELSE IF f > 2 * HalfBits THEN 1
     ELSE IF f > HalfBits
          THEN (d.hi \div 2^(f - HalfBits))
               + (IF d.hi % 2^(f - HalfBits) # 0 \/ d.lo # 0 THEN 1 ELSE 0)
          ELSE d.hi * 2^(HalfBits - f) + (d.lo \div 2^f) + (IF d.lo % 2^f # 0 THEN 1 ELSE 0)

\* Math.ceil(n * (num / den)) for a fraction num / den >= 0
CeilMul(n, frac) == DoubleCeil(DoubleMul(n, DoubleDiv(frac.num, frac.den)))

\* requiredVotes of checkConsensus and castVote
RequiredVotes(session) == CeilMul(Len(session.participants), session.requiredConsensus)

CountVotes(session, v) == Cardinality({a \in DOMAIN session.votes : session.votes[a] = v})

\* the ids of a set of agents in the order the registry map iterates (by id)
InRegistryOrder(ids) ==
  LET top == IF ids = {} THEN 0 ELSE CHOOSE x \in ids : \A y \in ids : y <= x
  IN SelectSeq([i \in 1..top |-> i], LAMBDA a : a \in ids)

\* the participants of a new session (lines 61-67)
Participants(ag, options) ==
  IF options.specificParticipants # {}
  THEN Coalesce(options.specificParticipants, <<>>)
  ELSE InRegistryOrder(getAgentsForTier(ag, options.requiredTier))

\* variant of the size test that lets a list one short of the tier's signers through
TooFewByTwo(nParticipants, tier) == nParticipants < GOVERNANCE_TIERS[tier].requiredTongues - 1

\* the size test of createRoundtable (line 69)
TooFewParticipants(nParticipants, tier) == nParticipants < GOVERNANCE_TIERS[tier].requiredTongues

\* createRoundtable on (sessions, agents): [threw, sessions, events]
CreateRoundtableFn(ss, ag, id, options, t) ==
  LET tierReq == GOVERNANCE_TIERS[options.requiredTier]
      participants == Participants(ag, options)
  IN IF TooFewParticipants(Len(participants), options.requiredTier)
     THEN [threw |-> TRUE, sessions |-> ss, events |-> <<>>]
     ELSE [threw |-> FALSE,
           sessions |-> [x \in DOMAIN ss \cup {id} |->
              IF x = id
              THEN [taskId |-> Coalesce(options.taskId, 0),
                    participants |-> participants,
                    votes |-> <<>>,
                    requiredConsensus |->
                      Coalesce(options.customConsensus,
                               [num |-> tierReq.requiredTongues, den |-> Len(participants)]),
                    status |-> "active",
                    expiresAt |-> t + OrNum(options.timeoutMs, DefaultTimeout)]
              ELSE ss[x]],
           events |-> <<Ev("roundtable_started", 0, 0, id, "")>>]

\* variant of the approval rule with a strict comparison
ApprovalExceeded(approvals, requiredVotes) == approvals > requiredVotes

\* the concluding rules of checkConsensus, on the tallies after the vote
ApprovalReached(approvals, requiredVotes) == approvals >= requiredVotes

\* variant of the rejection rule that rejects at exactly half the participants
HalfRejects(rejections, nParticipants) == 2 * rejections >= nParticipants

\* the majority-reject rule of checkConsensus (line 220)
MajorityRejects(rejections, nParticipants) == 2 * rejections > nParticipants

\* checkConsensus: the status of the session after the vote
ConsensusStatus(session) ==
  IF ApprovalReached(CountVotes(session, "approve"), RequiredVotes(session)) THEN "approved"
  ELSE IF MajorityRejects(CountVotes(session, "reject"), Len(session.participants)) THEN "rejected"
  ELSE IF Cardinality(DOMAIN session.votes) = Len(session.participants) THEN "rejected"
  ELSE session.status

\* expireSession
ExpireSessionFn(ss, id) ==
  IF id \notin DOMAIN ss \/ ss[id].status # "active"
  THEN [sessions |-> ss, events |-> <<>>]
  ELSE [sessions |-> [ss EXCEPT ![id].status = "expired"],
        events |-> <<Ev("roundtable_concluded", 0, 0, id, "expired")>>]

\* variant of the duplicate-vote test that finds no earlier vote
HasVotedNever(session, agentId) == FALSE

\* the duplicate-vote test of castVote (line 152)
HasVoted(session, agentId) == agentId \in DOMAIN session.votes

\* variant of the test of line 139 that takes every session for active
SessionClosedNever(session) == FALSE

\* the test of castVote that the session is no longer active (line 139)
SessionClosed(session) == session.status # "active"

\* variant of the status test that stops suspended agents only
CannotVoteSuspended(agent) == agent.status = "suspended"

\* the status test of castVote (lines 162-164)
CannotVote(agent) == agent.status \in {"suspended", "quarantined"}

\* variant of the participant test that admits every agent
IsParticipantAlways(session, agentId) == TRUE

\* the participant test of castVote (line 148)
IsParticipant(session, agentId) ==
  \E i \in DOMAIN session.participants : session.participants[i] = agentId

\* castVote on (sessions, agents): [threw, reason, sessions, events]
CastVoteFn(ss, ag, id, agentId, vote, t) ==
  LET Reject(why, ss1, evs) == [threw |-> TRUE, reason |-> why, sessions |-> ss1, events |-> evs]
  IN IF id \notin DOMAIN ss THEN Reject("Session not found", ss, <<>>)
     ELSE IF SessionClosed(ss[id]) THEN Reject("Session is not active", ss, <<>>)
     ELSE IF ss[id].expiresAt < t
          THEN LET e == ExpireSessionFn(ss, id)
               IN Reject("Session has expired", e.sessions, e.events)
     ELSE IF ~IsParticipant(ss[id], agentId)
          THEN Reject("Agent is not a participant", ss, <<>>)
     ELSE IF HasVoted(ss[id], agentId) THEN Reject("Agent has already voted", ss, <<>>)
     ELSE IF agentId \notin DOMAIN ag THEN Reject("Agent not found", ss, <<>>)
     ELSE IF CannotVote(ag[agentId])
          THEN Reject("Agent cannot vote", ss, <<>>)
     ELSE LET voted == [ss[id] EXCEPT !.votes =
                          [a \in DOMAIN ss[id].votes \cup {agentId} |->
                             IF a = agentId THEN vote ELSE ss[id].votes[a]]]
              status == ConsensusStatus(voted)
          IN [threw |-> FALSE, reason |-> "",
              sessions |-> [ss EXCEPT ![id] = [voted EXCEPT !.status = status]],
              events |-> <<Ev("roundtable_vote", agentId, 0, id, vote)>> \o
                         (IF status # "active"
                          THEN <<Ev("roundtable_concluded", 0, 0, id, status)>>
                          ELSE <<>>)]

\* getActiveSessions: expires, in id order, every active session past its expiry
RECURSIVE GetActiveSessionsFn(_, _, _, _)
GetActiveSessionsFn(ss, ids, t, evs) ==
  IF ids = {} THEN [sessions |-> ss, events |-> evs]
  ELSE LET id == CHOOSE x \in ids : \A y \in ids : x <= y
       IN IF ss[id].status = "active" /\ ss[id].expiresAt < t
          THEN LET e == ExpireSessionFn(ss, id)
               IN GetActiveSessionsFn(e.sessions, ids \ {id}, t, evs \o e.events)
          ELSE GetActiveSessionsFn(ss, ids \ {id}, t, evs)

\* getSession: the stored session as it is (0 for undefined)
GetSessionFn(ss, id) == IF id \in DOMAIN ss THEN ss[id] ELSE 0

\* the keywords of getRequiredTier with their tiers, in the order of the table
ActionTiers ==
  <<<<"read", "KO">>, <<"list", "KO">>, <<"get", "KO">>, <<"search", "KO">>,
    <<"create", "AV">>, <<"update", "AV">>, <<"write", "AV">>,
    <<"run", "RU">>, <<"execute", "RU">>, <<"test", "RU">>,
    <<"deploy", "CA">>, <<"publish", "CA">>, <<"release", "CA">>,
    <<"configure", "UM">>, <<"admin", "UM">>, <<"manage", "UM">>,
    <<"delete", "DR">>, <<"destroy", "DR">>, <<"terminate", "DR">>, <<"rollback", "DR">>>>

\* getRequiredTier; an action name is given as the set of the keywords that its
\* lower-cased text contains. The first keyword of the table found decides.
getRequiredTier(action) ==
  IF \E i \in DOMAIN ActionTiers : ActionTiers[i][1] \in action
  THEN LET first == CHOOSE i \in DOMAIN ActionTiers :
                      /\ ActionTiers[i][1] \in action
                      /\ \A j \in 1..(i - 1) : ActionTiers[j][1] \notin action
       IN ActionTiers[first][2]
  ELSE "RU"

\* canPerformAction
CanPerformActionFn(ag, agentId, action) ==
  IF agentId \notin DOMAIN ag
  THEN [allowed |-> FALSE, reason |-> "Agent not found", requiredTier |-> "KO",
        requiresRoundtable |-> FALSE]
  ELSE LET agent == ag[agentId]
           requiredTier == getRequiredTier(action)
           normalizedTrust ==
             100 - (IF agent.trustScore.normalized = 0 THEN 100 ELSE agent.trustScore.normalized)
       IN IF TierIndex(agent.maxGovernanceTier) < TierIndex(requiredTier)
          THEN [allowed |-> FALSE, reason |-> "Agent tier insufficient",
                requiredTier |-> requiredTier, requiresRoundtable |-> FALSE]
          ELSE IF normalizedTrust < GOVERNANCE_TIERS[requiredTier].minTrustScore
          THEN [allowed |-> FALSE, reason |-> "Trust score below required",
                requiredTier |-> requiredTier, requiresRoundtable |-> FALSE]
          ELSE [allowed |-> TRUE, reason |-> "", requiredTier |-> requiredTier,
                requiresRoundtable |-> requiredTier \in {"UM", "DR"}]

\* getStatistics: the sessions counted by their stored status
GetStatisticsFn(ss) ==
  LET Count(status) == Cardinality({id \in DOMAIN ss : ss[id].status = status})
  IN [totalSessions |-> Cardinality(DOMAIN ss),
      activeSessions |-> Count("active"),
      approvedSessions |-> Count("approved"),
      rejectedSessions |-> Count("rejected"),
      expiredSessions |-> Count("expired")]

\* ------------------------------------------------------------------ RWP2 (ssdk)
\* the receiver's keys by kid
KeyRing == [k1 |-> "key-1"]

\* canonicalString: the signed fields, in order
canonicalString(env) == <<env.tongue, env.ts, env.nonce, env.kid, env.payload>>

\* signDomain: the HMAC of the domain string and the canonical string under the
\* key, as the triple it is a function of
signDomain(canonical, key, tongue) == [key |-> key, domain |-> tongue, canonical |-> canonical]

\* signRWP2 with the keys in keys: the envelope with one signature per tongue
SignRWP2Fn(env, keys, signTongues) ==
  [tongue |-> env.tongue, ts |-> env.ts, nonce |-> env.nonce, kid |-> env.kid,
   payload |-> env.payload,
   sigs |-> [i \in DOMAIN signTongues |->
               [tongue |-> signTongues[i], kid |-> env.kid,
                sig |-> signDomain(canonicalString(env), keys[env.kid], signTongues[i])]]]

\* the tongues of the signatures from the i-th on that verify under the keyring
RECURSIVE ValidTongues(_, _, _)
ValidTongues(env, keyring, i) ==
  IF i > Len(env.sigs) THEN <<>>
  ELSE LET sig == env.sigs[i]
           valid == /\ sig.kid \in DOMAIN keyring
                    /\ sig.sig = signDomain(canonicalString(env), keyring[sig.kid], sig.tongue)
       IN (IF valid THEN <<sig.tongue>> ELSE <<>>) \o ValidTongues(env, keyring, i + 1)

\* verifyRWP2 at time t: throws outside the replay window, else returns the
\* tongues whose signatures verify; it keeps no record of what it has seen
VerifyRWP2Fn(env, keyring, replayWindowSec, t) ==
  LET age == t - env.ts
  IN IF age < 0 \/ age > replayWindowSec THEN [threw |-> TRUE, validTongues |-> <<>>]
     ELSE [threw |-> FALSE, validTongues |-> ValidTongues(env, keyring, 1)]

\* ------------------------------------------------------------- event delivery
\* A subscriber is what it does when called: it "returns" or it "throws".
ListenerInputs == {"returns", "throws"}

\* variant of the call of a listener with no try/catch around it: what the listener
\* throws escapes
CallListenerBare(listener) == listener = "throws"

\* try { listener(event) } catch (e) { console.error(...) }: whether an exception
\* escapes the call
TryListener(listener) == FALSE

\* the loop of emitEvent and of handleEvent over the listeners from the i-th on;
\* received[j] is what listener j has been called with so far
RECURSIVE EmitLoop(_, _, _, _)
EmitLoop(listeners, i, event, received) ==
  IF i > Len(listeners) THEN [received |-> received, escaped |-> FALSE]
  ELSE LET got == [received EXCEPT ![i] = Append(@, event)]
       IN IF TryListener(listeners[i]) THEN [received |-> got, escaped |-> TRUE]
          ELSE EmitLoop(listeners, i + 1, event, got)

\* emitEvent
EmitEventFn(listeners, received, event) == EmitLoop(listeners, 1, event, received)

\* the emitEvent calls of one operation, in order; an exception that escaped
\* emitEvent would end the operation there
RECURSIVE EmitFrom(_, _, _, _)
EmitFrom(listeners, evs, k, received) ==
  IF k > Len(evs) THEN [received |-> received, escaped |-> FALSE]
  ELSE LET r == EmitEventFn(listeners, received, evs[k])
       IN IF r.escaped THEN r ELSE EmitFrom(listeners, evs, k + 1, r.received)

EmitAll(listeners, evs) == EmitFrom(listeners, evs, 1, [i \in DOMAIN listeners |-> <<>>])

\* --------------------------------------------------------------- FleetManager
\* the sum of the success rates of the agents in ids, times 10^k
RECURSIVE SuccessSum(_, _, _)
SuccessSum(ag, ids, k) ==
  IF ids = {} THEN 0
  ELSE LET id == CHOOSE x \in ids : TRUE
       IN ag[id].successNum * Pow10(k - ag[id].tasksCompleted) + SuccessSum(ag, ids \ {id}, k)

\* getStatistics of the registry: avgSuccessRate < 0.8, 0 for an empty registry
LowSuccessRate(ag) ==
  LET n == Cardinality(DOMAIN ag)
      k == Max(0, CHOOSE m \in {ag[id].tasksCompleted : id \in DOMAIN ag} \cup {0} :
                    \A id \in DOMAIN ag : ag[id].tasksCompleted <= m)
  IN IF n = 0 THEN TRUE ELSE 10 * SuccessSum(ag, DOMAIN ag, k) < 8 * n * Pow10(k)

\* getHealthStatus: the issues found
GetHealthStatusFn(ag, ts) ==
  LET issues ==
        (IF \E id \in DOMAIN ag : ag[id].status = "quarantined" THEN {"quarantined"} ELSE {})
        \cup (IF \E id \in DOMAIN ag : ag[id].trustScore.level = "CRITICAL"
              THEN {"critical trust"} ELSE {})
        \cup (IF LowSuccessRate(ag) THEN {"success rate"} ELSE {})
        \cup (IF Cardinality({t \in DOMAIN ts : ts[t].status = "pending"}) > 10
              THEN {"pending"} ELSE {})
  IN [healthy |-> issues = {}, issues |-> issues]

\* ------------------------------------------------------------- PollyPadManager
\* Flux values (nu, targets, rates, coherence) are fixed-point numbers in units of
\* 0.0001: NuOne is 1.0. The ODE parameters and the decay rate are in hundredths.
NuOne == 10000

Abs(x) == IF x < 0 THEN -x ELSE x
Sign(x) == IF x < 0 THEN -1 ELSE IF x > 0 THEN 1 ELSE 0

\* Math.max(0, Math.min(1, x))
Clamp01(x) == Max(0, Min(NuOne, x))

\* Math.sqrt, rounded down
RECURSIVE SqrtBetween(_, _, _)
SqrtBetween(x, lo, hi) ==
  IF lo >= hi THEN lo
  ELSE LET mid == (lo + hi + 1) \div 2
       IN IF mid * mid <= x THEN SqrtBetween(x, mid, hi) ELSE SqrtBetween(x, lo, mid - 1)

Sqrt(x) == SqrtBetween(x, 0, 2 * NuOne)

\* getDimensionalState
getDimensionalState(nu) ==
  IF nu >= 9000 THEN "POLLY"
  ELSE IF nu >= 5000 THEN "QUASI"
  ELSE IF nu > 1000 THEN "DEMI"
  ELSE "COLLAPSED"

\* createPad: the flux fields of the new pad
NewPad ==
  [nu |-> NuOne, dimensionalState |-> "POLLY", targetNu |-> {}, fluxRate |-> 0,
   swarmId |-> 0, coherenceScore |-> NuOne]

\* updateFlux
UpdateFluxFn(pad, newNu) ==
  LET nu == Clamp01(newNu)
  IN [pad EXCEPT !.nu = nu, !.dimensionalState = getDimensionalState(nu)]

\* setTargetFlux
SetTargetFluxFn(pad, targetNu, rate) ==
  [pad EXCEPT !.targetNu = {Clamp01(targetNu)}, !.fluxRate = rate]

\* stepFlux: within 0.001 of the target the pad takes the target's value
StepFluxFn(pad) ==
  IF pad.targetNu = {} THEN pad
  ELSE LET targetNu == CHOOSE x \in pad.targetNu : TRUE
           diff == targetNu - pad.nu
           stepped ==
             IF Abs(diff) < 10
             THEN [pad EXCEPT !.nu = targetNu, !.targetNu = {}, !.fluxRate = 0]
             ELSE [pad EXCEPT !.nu = Clamp01(pad.nu + Sign(diff) * pad.fluxRate)]
       IN [stepped EXCEPT !.dimensionalState = getDimensionalState(stepped.nu)]

\* ------------------------------------------------------------ SwarmCoordinator
\* the default ODE parameters, in hundredths: alpha 0.1, beta 0.01, gamma 0.05, dt 1.0
DEFAULT_FLUX_ODE == [alpha |-> 10, beta |-> 1, gamma |-> 5, dt |-> 100]

\* createSwarm: the configuration stored; fluxDecayRate in hundredths
NewSwarm(config) ==
  [fluxDecayRate |-> Coalesce(config.fluxDecayRate, 1),
   maxPads |-> Coalesce(config.maxPads, 10)]

\* variant of the capacity test that admits one pad more
SwarmOverFull(size, maxPads) == size > maxPads

\* the capacity test of addPadToSwarm (line 144)
SwarmFull(size, maxPads) == size >= maxPads

\* removePadFromSwarm on (pads, swarmPads): [removed, pads, swarmPads]
RemovePadFromSwarmFn(ps, sp, swarmId, padId) ==
  IF swarmId \notin DOMAIN sp THEN [removed |-> FALSE, pads |-> ps, swarmPads |-> sp]
  ELSE LET removed == padId \in sp[swarmId]
       IN [removed |-> removed,
           swarmPads |-> [sp EXCEPT ![swarmId] = @ \ {padId}],
           pads |-> IF removed /\ padId \in DOMAIN ps
                    THEN [ps EXCEPT ![padId].swarmId = 0, ![padId].coherenceScore = NuOne]
                    ELSE ps]

\* addPadToSwarm on (pads, swarms, swarmPads): [added, pads, swarmPads]
AddPadToSwarmFn(ps, sw, sp, swarmId, padId) ==
  LET No == [added |-> FALSE, pads |-> ps, swarmPads |-> sp]
  IN IF swarmId \notin DOMAIN sw \/ swarmId \notin DOMAIN sp THEN No
     ELSE IF SwarmFull(Cardinality(sp[swarmId]), sw[swarmId].maxPads) THEN No
     ELSE IF padId \notin DOMAIN ps THEN No
     ELSE LET left == IF ps[padId].swarmId # 0
                      THEN RemovePadFromSwarmFn(ps, sp, ps[padId].swarmId, padId)
                      ELSE [removed |-> FALSE, pads |-> ps, swarmPads |-> sp]
          IN [added |-> TRUE,
              swarmPads |-> [left.swarmPads EXCEPT ![swarmId] = @ \cup {padId}],
              pads |-> [left.pads EXCEPT ![padId].swarmId = swarmId]]

\* getSwarmPads: the ids of the member pads that exist
getSwarmPads(ps, sp, swarmId) ==
  IF swarmId \in DOMAIN sp THEN sp[swarmId] \cap DOMAIN ps ELSE {}

RECURSIVE SumOver(_, _)
SumOver(f, ids) ==
  IF ids = {} THEN 0
  ELSE LET id == CHOOSE x \in ids : TRUE IN f[id] + SumOver(f, ids \ {id})

\* getSwarmState: the average flux and the coherence 1 - 2 * sqrt(variance)
GetSwarmStateFn(ps, sp, swarmId) ==
  LET ids == getSwarmPads(ps, sp, swarmId)
      n == Cardinality(ids)
  IN IF n = 0 THEN [avgNu |-> 0, coherence |-> 0]
     ELSE LET avgNu == SumOver([id \in ids |-> ps[id].nu], ids) \div n
              variance ==
                SumOver([id \in ids |-> (ps[id].nu - avgNu) * (ps[id].nu - avgNu)], ids) \div n
          IN [avgNu |-> avgNu, coherence |-> Max(0, NuOne - Sqrt(variance) * 2)]

\* syncSwarm: the pads with the coherence scores of the members updated
SyncSwarmFn(ps, sw, sp, swarmId) ==
  IF swarmId \notin DOMAIN sw \/ swarmId \notin DOMAIN sp THEN ps
  ELSE LET state == GetSwarmStateFn(ps, sp, swarmId)
       IN [id \in DOMAIN ps |->
             IF id \in getSwarmPads(ps, sp, swarmId)
             THEN [ps[id] EXCEPT !.coherenceScore = Max(0, NuOne - Abs(ps[id].nu - state.avgNu))]
             ELSE ps[id]]

\* stepFluxODE, the change of one pad:
\*   (alpha * (nuTarget - nu) - beta * fluxDecayRate + gamma * coherence * (+1 or -1)) * dt
FluxDelta(pad, swarm, state, params) ==
  LET nuTarget == Coalesce(pad.targetNu, state.avgNu)
      direction == IF pad.coherenceScore > 5000 THEN 1 ELSE -1
  IN ((params.alpha * (nuTarget - pad.nu)
       - 100 * params.beta * swarm.fluxDecayRate
       + params.gamma * state.coherence * direction) * params.dt) \div 10000

\* stepFluxODE: the pads with the members stepped
StepFluxODEFn(ps, sw, sp, params, swarmId) ==
  IF swarmId \notin DOMAIN sw \/ swarmId \notin DOMAIN sp THEN ps
  ELSE LET state == GetSwarmStateFn(ps, sp, swarmId)
       IN [id \in DOMAIN ps |->
             IF id \in getSwarmPads(ps, sp, swarmId)
             THEN LET dNu == FluxDelta(ps[id], sw[swarmId], state, params)
                      nu == Clamp01(ps[id].nu + dNu)
                  IN [ps[id] EXCEPT !.nu = nu,
                                    !.dimensionalState = getDimensionalState(nu),
                                    !.fluxRate = Abs(dNu)]
             ELSE ps[id]]

\* boostPadFlux
BoostPadFluxFn(pad, amount) ==
  LET nu == Min(NuOne, pad.nu + amount)
  IN [pad EXCEPT !.nu = nu, !.dimensionalState = getDimensionalState(nu)]

\* decayPadFlux
DecayPadFluxFn(pad, amount) ==
  LET nu == Max(0, pad.nu - amount)
  IN [pad EXCEPT !.nu = nu, !.dimensionalState = getDimensionalState(nu)]

\* collapsePad
CollapsePadFn(pad) ==
  [pad EXCEPT !.nu = 0, !.dimensionalState = "COLLAPSED", !.fluxRate = 0, !.targetNu = {}]

\* revivePad: the target is stored as given
RevivePadFn(pad, targetNu) ==
  [pad EXCEPT !.nu = 1000, !.targetNu = {targetNu}, !.fluxRate = 200,
              !.dimensionalState = "DEMI"]

\* ------------------------------------------------------------------ inputs
AgentIds == 1..MaxAgents
VoterIds == 1..MaxParticipants
TaskIds == 1..MaxTasks
SessionIds == 1..MaxSessions

Uniform(v) == <<v, v, v, v, v, v>>

AgentOpts(caps, maxTasks, tier, vector) ==
  [capabilities |-> caps, maxConcurrentTasks |-> maxTasks,
   maxGovernanceTier |-> tier, initialTrustVector |-> vector]

\* the options of the n-th registration: the second agent has the top tier, the
\* default number of slots and a low trust; the others have one slot, the
\* default tier (RU) and the default trust vector
ValidAgentOptions(n) ==
  IF n = 2
  THEN {AgentOpts({"code_generation", "deployment"}, {}, {"DR"}, {Uniform(30)})}
  ELSE {AgentOpts({"code_generation"}, {1}, {}, {})}

InvalidAgentOptions ==
  {AgentOpts({"code_generation"}, {1}, {}, {<<50, 50, 50, 50, 50>>}),
   AgentOpts({"code_generation"}, {1}, {}, {<<50, 50, 50, 50, 50, 50, 50>>})}

AgentOptions(n) == ValidAgentOptions(n) \cup InvalidAgentOptions

TrustVectorInputs == {Uniform(20), <<50, 50, 50, 50, 50>>}

\* registrations of every trust level (HIGH, MEDIUM, LOW, CRITICAL) under the
\* ceilings KO, RU (the default) and DR
RankedAgentOptions ==
  {AgentOpts({"code_generation"}, {1}, tier, {Uniform(v)}) :
     tier \in {{"KO"}, {}, {"DR"}}, v \in {80, 50, 30, 20}}

\* action names, as the keywords they contain: 'read_file', 'deploy_app',
\* 'configure', 'delete_db', 'ping' and 'delete_list'
ActionInputs == {{"read"}, {"deploy"}, {"configure"}, {"delete"}, {}, {"delete", "list"}}

\* the statuses callers set: suspendAgent and reactivateAgent of the fleet manager
StatusInputs == {"idle", "suspended"}

TaskOpts(cap, tier, priority, minTrust, approval, approvals, retries) ==
  [requiredCapability |-> cap, requiredTier |-> tier, priority |-> priority,
   minTrustScore |-> minTrust, requiresApproval |-> approval,
   requiredApprovals |-> approvals, timeoutMs |-> {}, maxRetries |-> retries]

PlainTask == TaskOpts("code_generation", "KO", {}, {}, {}, {}, {2})
ApprovalTask == TaskOpts("code_generation", "RU", {}, {}, {TRUE}, {2}, {1})
DeployTask == TaskOpts("deployment", "UM", {"high"}, {}, {FALSE}, {}, {})

\* the options of the n-th task created
TaskOptions(n) == IF n = 1 THEN {PlainTask, ApprovalTask} ELSE {PlainTask, DeployTask}

\* the nonces drawn by the sender
NonceInputs == {"n1", "n2"}

\* the tongues an envelope is signed with
SignTongueInputs == {<<"KO">>, <<"KO", "RU">>}

\* the sender's keys: the receiver's, or a key of its own filed under the same kid
SenderKeyInputs == {KeyRing, [k1 |-> "key-x"]}

\* replayWindowSec in ticks of the clock (150 s): the default of 60 s lets only
\* age 0 through; 150 s lets one tick through
ReplayWindowInputs == {0, 1}

PadIds == 1..MaxPads
SwarmIds == 1..MaxSwarms

SwarmOpts(maxPads, fluxDecayRate) == [maxPads |-> maxPads, fluxDecayRate |-> fluxDecayRate]

\* the options of createSwarm: room for one pad or for two, the default decay
\* rate or 0.5
SwarmOptions == {SwarmOpts({1}, {}), SwarmOpts({2}, {50})}

\* the ODE parameters of a coordinator built with its own: alpha 5.0, beta 1.0,
\* gamma 3.0, dt 2.0
FluxParamInputs == {[alpha |-> 500, beta |-> 100, gamma |-> 300, dt |-> 200]}

\* the flux values passed to updateFlux and setTargetFlux: 0, 1 and 1.2
NuInputs == {0, NuOne, 12000}

\* the targets passed to revivePad: the default 0.5, 1.0005 and -0.0005
TargetInputs == {5000, 10005, -5}

\* the rate passed to setTargetFlux: the default 0.01
RateInputs == {100}

\* the amounts passed to boostPadFlux and decayPadFlux: the defaults 0.1 and 0.05
BoostInputs == {1000}
DecayInputs == {500}

\* the targets and the rates of the gradual transitions: 0.5, by 0.1 or 0.3 a step
GradualTargetInputs == {5000}

GradualRateInputs == {1000, 3000}

\* max(0, 10 - hoursSinceActive) of selectBestAgent, per agent
RecencyInputs == [DOMAIN agents -> {0, 10}]

RoundtableOpts(tier, participants, consensus, timeout) ==
  [requiredTier |-> tier, specificParticipants |-> participants,
   customConsensus |-> consensus, timeoutMs |-> timeout, taskId |-> {}]

\* a session opened by a caller for the first task
LinkedRoundtable == [RoundtableOpts("KO", {}, {}, {}) EXCEPT !.taskId = {1}]

RoundtableOptions ==
  {RoundtableOpts("KO", {}, {}, {}),
   LinkedRoundtable,
   RoundtableOpts("AV", {}, {}, {1}),
   RoundtableOpts("KO", {<<1, 2, 3>>}, {[num |-> 1, den |-> 1]}, {0}),
   RoundtableOpts("KO", {<<1, 2>>}, {[num |-> 0, den |-> 1]}, {}),
   RoundtableOpts("RU", {<<1, 2>>}, {}, {})}

\* the tier of the sessions opened in the large fleet, which asks for three signers
DefaultTierInputs == {"RU"}

VoteInputs == {"approve", "reject", "abstain"}

\* ------------------------------------------------------------------- state
DispatcherState == [agents |-> agents, tasks |-> tasks, taskQueue |-> taskQueue]

\* the last operation: its name, whether it succeeded, and the reason it gave if not
Last(op, ok, why) == [op |-> op, ok |-> ok, why |-> why]

Init ==
  /\ agents = <<>>
  /\ agentSeq = 0
  /\ adminOps = 0
  /\ reports = 0
  /\ tasks = <<>>
  /\ taskQueue = <<>>
  /\ sessions = <<>>
  /\ now = 0
  /\ events = <<>>
  /\ last = Last("init", TRUE, "")
  /\ eventListeners = <<>>
  /\ pads = <<>>
  /\ swarms = <<>>
  /\ swarmPads = <<>>
  /\ fluxParams = DEFAULT_FLUX_ODE
  /\ fluxOps = 0
  /\ envelopes = {}
  /\ accepted = <<>>

\* ---------------------------------------------------------- registry actions
RegisterFrom(n, choices) ==
  /\ agentSeq < n
  /\ \E options \in choices :
       LET id == agentSeq + 1
           r == RegisterAgentFn(agents, id, options)
       IN /\ agents' = r.agents
          /\ agentSeq' = IF r.threw THEN agentSeq ELSE id
          /\ events' = r.events
          /\ last' = Last("registerAgent", ~r.threw, "")
  /\ UNCHANGED <<adminOps, reports, tasks, taskQueue, sessions, now, eventListeners, swarmVars, rwpVars>>

RegisterUpTo(n) == RegisterFrom(n, AgentOptions(agentSeq + 1))

\* registerAgent, in a fleet of every trust level and ceiling
RegisterRanked == RegisterFrom(MaxAgents, RankedAgentOptions)

\* registerAgent, in the fleet of the dispatcher
RegisterAgent == RegisterUpTo(MaxAgents)

\* registerAgent, in the fleet of the roundtable
RegisterParticipant == RegisterUpTo(MaxParticipants)

\* registerAgent, in the fleet of the tally
RegisterVoter == RegisterUpTo(MaxVoters)

\* registerAgent, in a large fleet of agents registered with the defaults
RegisterCrowd == RegisterFrom(MaxCrowd, ValidAgentOptions(1))

\* an administrative call (status, trust, removal) is counted
Admin ==
  /\ adminOps < MaxAdminOps
  /\ adminOps' = adminOps + 1

\* updateAgentStatus of a registered agent (it throws for any other id)
UpdateAgentStatus ==
  \E id \in DOMAIN agents, status \in StatusInputs :
    /\ Admin
    /\ agents' = [agents EXCEPT ![id].status = status]
    /\ events' = <<Ev(IF status = "suspended" THEN "agent_suspended"
                      ELSE IF status = "quarantined" THEN "agent_quarantined"
                      ELSE "agent_updated", id, 0, 0, status)>>
    /\ last' = Last("updateAgentStatus", TRUE, "")
    /\ UNCHANGED <<agentSeq, reports, tasks, taskQueue, sessions, now, eventListeners, swarmVars, rwpVars>>

\* updateTrustVector of a registered agent
UpdateTrustVector ==
  \E id \in DOMAIN agents, trustVector \in TrustVectorInputs :
    /\ Admin
    /\ LET r == UpdateTrustVectorFn(agents, id, trustVector)
       IN /\ agents' = r.agents
          /\ events' = r.events
          /\ last' = Last("updateTrustVector", ~r.threw, "")
    /\ UNCHANGED <<agentSeq, reports, tasks, taskQueue, sessions, now, eventListeners, swarmVars, rwpVars>>

\* removeAgent of a registered agent: it throws while the agent has tasks
RemoveAgent ==
  \E id \in DOMAIN agents :
    /\ Admin
    /\ LET r == RemoveAgentFn(agents, id)
       IN /\ agents' = r.agents
          /\ events' = r.events
          /\ last' = Last("removeAgent", r.removed, "")
    /\ UNCHANGED <<agentSeq, reports, tasks, taskQueue, sessions, now, eventListeners, swarmVars, rwpVars>>

\* -------------------------------------------------------- dispatcher actions
SetDispatcher(r) ==
  /\ agents' = r.agents
  /\ tasks' = r.tasks
  /\ taskQueue' = r.taskQueue
  /\ events' = r.events

CreateTask ==
  /\ Len(tasks) < MaxTasks
  /\ \E options \in TaskOptions(Len(tasks) + 1) :
       LET id == Len(tasks) + 1
       IN /\ tasks' = Append(tasks, NewTask(options))
          /\ taskQueue' = addToQueue(taskQueue, id)
          /\ events' = <<Ev("task_created", 0, id, 0, "")>>
          /\ last' = Last("createTask", TRUE, "")
  /\ UNCHANGED <<agents, agentSeq, adminOps, reports, sessions, now, eventListeners, swarmVars, rwpVars>>

\* FleetManager.createTask with autoAssign: createTask, then assignTask
FleetCreateTask ==
  /\ Len(tasks) < MaxTasks
  /\ \E options \in TaskOptions(Len(tasks) + 1), recency \in RecencyInputs :
       LET id == Len(tasks) + 1
           st == [agents |-> agents, tasks |-> Append(tasks, NewTask(options)),
                  taskQueue |-> addToQueue(taskQueue, id)]
           r == AssignTaskFn(st, id, recency)
       IN /\ agents' = r.agents
          /\ tasks' = r.tasks
          /\ taskQueue' = r.taskQueue
          /\ events' = <<Ev("task_created", 0, id, 0, "")>> \o r.events
          /\ last' = Last("assignTask", r.success, r.reason)
  /\ UNCHANGED <<agentSeq, adminOps, reports, sessions, now, eventListeners, swarmVars, rwpVars>>

AssignTask ==
  \E t \in DOMAIN tasks, recency \in RecencyInputs :
    /\ LET r == AssignTaskFn(DispatcherState, t, recency)
       IN /\ SetDispatcher(r)
          /\ last' = Last("assignTask", r.success, r.reason)
    /\ UNCHANGED <<agentSeq, adminOps, reports, sessions, now, eventListeners, swarmVars, rwpVars>>

AutoAssignPendingTasks ==
  \E recency \in RecencyInputs :
    /\ LET r == AutoAssignLoop(DispatcherState, getPendingTasks(DispatcherState), recency, <<>>, 0)
       IN /\ SetDispatcher(r)
          /\ last' = Last("autoAssignPendingTasks", TRUE, "")
    /\ UNCHANGED <<agentSeq, adminOps, reports, sessions, now, eventListeners, swarmVars, rwpVars>>

\* approveTask takes any string as the approver's id, registered or not
ApproveTask ==
  \E t \in DOMAIN tasks, agentId \in AgentIds :
    /\ LET r == ApproveTaskFn(DispatcherState, t, agentId)
       IN /\ SetDispatcher(r)
          /\ last' = Last("approveTask", r.success, "")
    /\ UNCHANGED <<agentSeq, adminOps, reports, sessions, now, eventListeners, swarmVars, rwpVars>>

\* an outcome report (completeTask, failTask, cancelTask) is counted
Report ==
  /\ reports < MaxReports
  /\ reports' = reports + 1

CompleteTask ==
  \E t \in DOMAIN tasks :
    /\ Report
    /\ LET r == CompleteTaskFn(DispatcherState, t)
       IN /\ SetDispatcher(r)
          /\ last' = Last("completeTask", ~r.threw, "")
    /\ UNCHANGED <<agentSeq, adminOps, sessions, now, eventListeners, swarmVars, rwpVars>>

FailTask ==
  \E t \in DOMAIN tasks :
    /\ Report
    /\ LET r == FailTaskFn(DispatcherState, t)
       IN /\ SetDispatcher(r)
          /\ last' = Last("failTask", ~r.threw, "")
    /\ UNCHANGED <<agentSeq, adminOps, sessions, now, eventListeners, swarmVars, rwpVars>>

CancelTask ==
  \E t \in DOMAIN tasks :
    /\ Report
    /\ LET r == CancelTaskFn(DispatcherState, t)
       IN /\ SetDispatcher(r)
          /\ last' = Last("cancelTask", ~r.threw, "")
    /\ UNCHANGED <<agentSeq, adminOps, sessions, now, eventListeners, swarmVars, rwpVars>>

\* -------------------------------------------------------- governance actions
CreateRoundtable ==
  /\ Cardinality(DOMAIN sessions) < MaxSessions
  /\ \E options \in RoundtableOptions :
       LET r == CreateRoundtableFn(sessions, agents, Cardinality(DOMAIN sessions) + 1, options, now)
       IN /\ sessions' = r.sessions
          /\ events' = r.events
          /\ last' = Last("createRoundtable", ~r.threw, "")
  /\ UNCHANGED <<agents, agentSeq, adminOps, reports, tasks, taskQueue, now, eventListeners, swarmVars, rwpVars>>

\* createRoundtable with nothing but the tier and the topic
CreateDefaultRoundtable ==
  /\ Cardinality(DOMAIN sessions) < MaxSessions
  /\ \E tier \in DefaultTierInputs :
       LET r == CreateRoundtableFn(sessions, agents, Cardinality(DOMAIN sessions) + 1,
                                   RoundtableOpts(tier, {}, {}, {}), now)
       IN /\ sessions' = r.sessions
          /\ events' = r.events
          /\ last' = Last("createRoundtable", ~r.threw, "")
  /\ UNCHANGED <<agents, agentSeq, adminOps, reports, tasks, taskQueue, now, eventListeners, swarmVars, rwpVars>>

CastVoteBy(voters) ==
  \E id \in DOMAIN sessions, agentId \in voters, vote \in VoteInputs :
    /\ LET r == CastVoteFn(sessions, agents, id, agentId, vote, now)
       IN /\ sessions' = r.sessions
          /\ events' = r.events
          /\ last' = Last("castVote", ~r.threw, r.reason)
    /\ UNCHANGED <<agents, agentSeq, adminOps, reports, tasks, taskQueue, now, eventListeners, swarmVars, rwpVars>>

CastVote == CastVoteBy(VoterIds)

\* castVote, in the fleet of the tally
CastTallyVote == CastVoteBy(1..MaxVoters)

\* getSession: reads the session, which stays as it is; the caller sees its status
GetSession ==
  \E id \in DOMAIN sessions :
    /\ last' = Last("getSession", TRUE, GetSessionFn(sessions, id).status)
    /\ events' = <<>>
    /\ UNCHANGED <<agents, agentSeq, adminOps, reports, tasks, taskQueue, sessions, now, eventListeners, swarmVars, rwpVars>>

\* getStatistics: reads the sessions, which stay as they are; the caller sees
\* whether any is counted active
GetStatistics ==
  /\ last' = Last("getStatistics", TRUE,
                  IF GetStatisticsFn(sessions).activeSessions > 0 THEN "active" ELSE "")
  /\ events' = <<>>
  /\ UNCHANGED <<agents, agentSeq, adminOps, reports, tasks, taskQueue, sessions, now, eventListeners, swarmVars, rwpVars>>

GetActiveSessions ==
  /\ LET r == GetActiveSessionsFn(sessions, DOMAIN sessions, now, <<>>)
     IN /\ sessions' = r.sessions
        /\ events' = r.events
  /\ last' = Last("getActiveSessions", TRUE, "")
  /\ UNCHANGED <<agents, agentSeq, adminOps, reports, tasks, taskQueue, now, eventListeners, swarmVars, rwpVars>>

\* the clock (Date.now()) advances
Tick ==
  /\ now < MaxTime
  /\ now' = now + 1
  /\ events' = <<>>
  /\ last' = Last("tick", TRUE, "")
  /\ UNCHANGED <<agents, agentSeq, adminOps, reports, tasks, taskQueue, sessions, eventListeners, swarmVars, rwpVars>>

\* getAgentsForTier
GetAgentsForTier ==
  /\ \E i \in DOMAIN TierOrder :
       last' = Last("getAgentsForTier", getAgentsForTier(agents, TierOrder[i]) # {}, TierOrder[i])
  /\ events' = <<>>
  /\ UNCHANGED <<fleetState, eventListeners, swarmVars, rwpVars>>

\* canPerformAction, of any agent id
CanPerformAction ==
  /\ \E agentId \in AgentIds, action \in ActionInputs :
       LET r == CanPerformActionFn(agents, agentId, action)
       IN last' = Last("canPerformAction", r.allowed, r.requiredTier)
  /\ events' = <<>>
  /\ UNCHANGED <<fleetState, eventListeners, swarmVars, rwpVars>>

\* ------------------------------------------------------ pad and swarm actions
CreatePad ==
  /\ Len(pads) < MaxPads
  /\ pads' = Append(pads, NewPad)
  /\ events' = <<>>
  /\ last' = Last("createPad", TRUE, "")
  /\ UNCHANGED <<fleetState, eventListeners, swarms, swarmPads, fluxParams, fluxOps, rwpVars>>

\* new SwarmCoordinator(padManager, fluxParams), before any swarm exists
NewSwarmCoordinator ==
  /\ swarms = <<>>
  /\ fluxParams = DEFAULT_FLUX_ODE
  /\ \E params \in FluxParamInputs : fluxParams' = params
  /\ events' = <<>>
  /\ last' = Last("newSwarmCoordinator", TRUE, "")
  /\ UNCHANGED <<fleetState, eventListeners, pads, swarms, swarmPads, fluxOps, rwpVars>>

\* createSwarm with a generated id
CreateSwarm ==
  /\ Len(swarms) < MaxSwarms
  /\ \E config \in SwarmOptions :
       /\ swarms' = Append(swarms, NewSwarm(config))
       /\ swarmPads' = Append(swarmPads, {})
  /\ events' = <<>>
  /\ last' = Last("createSwarm", TRUE, "")
  /\ UNCHANGED <<fleetState, eventListeners, pads, fluxParams, fluxOps, rwpVars>>

AddPadToSwarm ==
  /\ \E swarmId \in SwarmIds, padId \in PadIds :
       LET r == AddPadToSwarmFn(pads, swarms, swarmPads, swarmId, padId)
       IN /\ pads' = r.pads
          /\ swarmPads' = r.swarmPads
          /\ last' = Last("addPadToSwarm", r.added, "")
  /\ events' = <<>>
  /\ UNCHANGED <<fleetState, eventListeners, swarms, fluxParams, fluxOps, rwpVars>>

RemovePadFromSwarm ==
  /\ \E swarmId \in SwarmIds, padId \in PadIds :
       LET r == RemovePadFromSwarmFn(pads, swarmPads, swarmId, padId)
       IN /\ pads' = r.pads
          /\ swarmPads' = r.swarmPads
          /\ last' = Last("removePadFromSwarm", r.removed, "")
  /\ events' = <<>>
  /\ UNCHANGED <<fleetState, eventListeners, swarms, fluxParams, fluxOps, rwpVars>>

\* a flux operation op that leaves the pads as ps
FluxOp(op, ps) ==
  /\ fluxOps < MaxFluxOps
  /\ fluxOps' = fluxOps + 1
  /\ pads' = ps
  /\ events' = <<>>
  /\ last' = Last(op, TRUE, "")
  /\ UNCHANGED <<fleetState, eventListeners, swarms, swarmPads, fluxParams, rwpVars>>

SyncSwarm ==
  \E swarmId \in DOMAIN swarms :
    FluxOp("syncSwarm", SyncSwarmFn(pads, swarms, swarmPads, swarmId))

StepFluxODE ==
  \E swarmId \in DOMAIN swarms :
    FluxOp("stepFluxODE", StepFluxODEFn(pads, swarms, swarmPads, fluxParams, swarmId))

UpdateFlux ==
  \E padId \in DOMAIN pads, newNu \in NuInputs :
    FluxOp("updateFlux", [pads EXCEPT ![padId] = UpdateFluxFn(@, newNu)])

SetTargetFlux ==
  \E padId \in DOMAIN pads, targetNu \in NuInputs, rate \in RateInputs :
    FluxOp("setTargetFlux", [pads EXCEPT ![padId] = SetTargetFluxFn(@, targetNu, rate)])

StepFlux ==
  \E padId \in DOMAIN pads :
    FluxOp("stepFlux", [pads EXCEPT ![padId] = StepFluxFn(@)])

BoostPadFlux ==
  \E padId \in DOMAIN pads, amount \in BoostInputs :
    FluxOp("boostPadFlux", [pads EXCEPT ![padId] = BoostPadFluxFn(@, amount)])

DecayPadFlux ==
  \E padId \in DOMAIN pads, amount \in DecayInputs :
    FluxOp("decayPadFlux", [pads EXCEPT ![padId] = DecayPadFluxFn(@, amount)])

\* setTargetFlux, for a gradual transition
SetGradualTarget ==
  \E padId \in DOMAIN pads, targetNu \in GradualTargetInputs, rate \in GradualRateInputs :
    FluxOp("setTargetFlux", [pads EXCEPT ![padId] = SetTargetFluxFn(@, targetNu, rate)])

\* stepFlux of one pad, as its owner calls it periodically
StepFluxOf(padId) ==
  /\ padId \in DOMAIN pads
  /\ pads' = [pads EXCEPT ![padId] = StepFluxFn(@)]
  /\ events' = <<>>
  /\ last' = Last("stepFlux", TRUE, "")
  /\ UNCHANGED <<fleetState, eventListeners, swarms, swarmPads, fluxParams, fluxOps, rwpVars>>

PeriodicStepFlux == \E padId \in PadIds : StepFluxOf(padId)

CollapsePad ==
  \E padId \in DOMAIN pads :
    FluxOp("collapsePad", [pads EXCEPT ![padId] = CollapsePadFn(@)])

RevivePad ==
  \E padId \in DOMAIN pads, targetNu \in TargetInputs :
    FluxOp("revivePad", [pads EXCEPT ![padId] = RevivePadFn(@, targetNu)])

\* ------------------------------------------------------------- RWP2 actions
\* a sender signs an envelope stamped with the current time and sends it
SignRWP2 ==
  /\ Cardinality(envelopes) < MaxEnvelopes
  /\ \E nonce \in NonceInputs, signTongues \in SignTongueInputs, keys \in SenderKeyInputs :
       LET env == [tongue |-> signTongues[1], ts |-> now, nonce |-> nonce, kid |-> "k1",
                   payload |-> "p"]
       IN envelopes' = envelopes \cup {SignRWP2Fn(env, keys, signTongues)}
  /\ events' = <<>>
  /\ last' = Last("signRWP2", TRUE, "")
  /\ UNCHANGED <<fleetState, eventListeners, swarmVars, accepted>>

\* the receiver verifies an envelope taken from the wire, which stays there
VerifyRWP2 ==
  /\ SumOver(accepted, DOMAIN accepted) < MaxVerifies
  /\ \E env \in envelopes, replayWindowSec \in ReplayWindowInputs :
       LET r == VerifyRWP2Fn(env, KeyRing, replayWindowSec, now)
       IN /\ accepted' =
               IF r.threw \/ r.validTongues = <<>> THEN accepted
               ELSE [e \in DOMAIN accepted \cup {env} |->
                       IF e = env
                       THEN (IF env \in DOMAIN accepted THEN accepted[env] ELSE 0) + 1
                       ELSE accepted[e]]
          /\ last' = Last("verifyRWP2", ~r.threw,
                          IF r.threw THEN "Envelope outside replay window"
                          ELSE IF r.validTongues = <<>> THEN "no valid tongue" ELSE "valid")
  /\ events' = <<>>
  /\ UNCHANGED <<fleetState, eventListeners, swarmVars, envelopes>>

\* onEvent: a client subscribes
OnEvent ==
  /\ Len(eventListeners) < MaxListeners
  /\ \E listener \in ListenerInputs : eventListeners' = Append(eventListeners, listener)
  /\ events' = <<>>
  /\ last' = Last("onEvent", TRUE, "")
  /\ UNCHANGED <<agents, agentSeq, adminOps, reports, tasks, taskQueue, sessions, now, swarmVars, rwpVars>>

\* the timer of startHealthChecks fires: the only timer of the fleet manager, the
\* registry and the dispatcher
HealthCheck ==
  /\ LET health == GetHealthStatusFn(agents, tasks)
     IN /\ events' = IF health.healthy THEN <<>>
                     ELSE <<Ev("security_alert", 0, 0, 0, "Fleet health check failed")>>
        /\ last' = Last("healthCheck", health.healthy, "")
  /\ UNCHANGED <<agents, agentSeq, adminOps, reports, tasks, taskQueue, sessions, now, eventListeners, swarmVars, rwpVars>>

\* ------------------------------------------------ specification (dispatcher)
Next ==
  \/ RegisterAgent
  \/ UpdateAgentStatus
  \/ UpdateTrustVector
  \/ RemoveAgent
  \/ CreateTask
  \/ FleetCreateTask
  \/ AssignTask
  \/ AutoAssignPendingTasks
  \/ ApproveTask
  \/ CompleteTask
  \/ FailTask
  \/ CancelTask

Spec == Init /\ [][Next]_vars

\* ------------------------------------------------ specification (roundtable)
NextGov ==
  \/ RegisterParticipant
  \/ UpdateAgentStatus
  \/ UpdateTrustVector
  \/ CreateRoundtable
  \/ CastVote
  \/ GetActiveSessions
  \/ GetSession
  \/ GetStatistics
  \/ Tick

SpecGov == Init /\ [][NextGov]_vars

\* ------------------------------- specification (dispatcher and roundtable)
NextFleet ==
  \/ RegisterAgent
  \/ UpdateAgentStatus
  \/ UpdateTrustVector
  \/ RemoveAgent
  \/ FleetCreateTask
  \/ AssignTask
  \/ CreateRoundtable
  \/ CastVote

SpecFleet == Init /\ [][NextFleet]_vars

\* --------------------------------- specification (tally of a large roundtable)
NextTally ==
  \/ RegisterVoter
  \/ CreateRoundtable
  \/ CastTallyVote

SpecTally == Init /\ [][NextTally]_vars

\* ------------------------------------------- specification (task timeouts)
\* The clock and the health-check timer are the steps that happen without a client
\* call; the clients' calls are allowed and never forced.
NextTimeout ==
  \/ RegisterAgent
  \/ FleetCreateTask
  \/ CancelTask
  \/ Tick
  \/ HealthCheck

SpecTimeout == Init /\ [][NextTimeout]_vars /\ WF_vars(Tick) /\ WF_vars(HealthCheck)

\* ------------------------------------------- specification (subscribers)
NextEvents ==
  \/ OnEvent
  \/ RegisterAgent
  \/ FleetCreateTask
  \/ CreateRoundtable
  \/ CastVote
  \/ HealthCheck

SpecEvents == Init /\ [][NextEvents]_vars

\* -------------------------------------- specification (swarm membership)
NextSwarm ==
  \/ CreatePad
  \/ CreateSwarm
  \/ AddPadToSwarm
  \/ RemovePadFromSwarm
  \/ SyncSwarm

SpecSwarm == Init /\ [][NextSwarm]_vars

\* ------------------------------------------------- specification (pad flux)
NextFlux ==
  \/ CreatePad
  \/ NewSwarmCoordinator
  \/ CreateSwarm
  \/ AddPadToSwarm
  \/ SyncSwarm
  \/ StepFluxODE
  \/ UpdateFlux
  \/ SetTargetFlux
  \/ StepFlux
  \/ BoostPadFlux
  \/ DecayPadFlux
  \/ CollapsePad
  \/ RevivePad

SpecFlux == Init /\ [][NextFlux]_vars

\* --------------------------------------------------- specification (RWP2)
NextRWP ==
  \/ SignRWP2
  \/ VerifyRWP2
  \/ Tick

SpecRWP == Init /\ [][NextRWP]_vars

\* ------------------------------------------ specification (tiers and trust)
NextTier ==
  \/ RegisterRanked
  \/ UpdateAgentStatus
  \/ UpdateTrustVector
  \/ GetAgentsForTier
  \/ CanPerformAction

SpecTier == Init /\ [][NextTier]_vars

\* ------------------------------------------- specification (large fleet)
NextCrowd ==
  \/ RegisterCrowd
  \/ CreateDefaultRoundtable

SpecCrowd == Init /\ [][NextCrowd]_vars

\* ------------------------------------ specification (gradual transitions)
\* stepFlux is meant to be called periodically: every pad goes on being stepped;
\* the calls that set a target are allowed and never forced.
NextGradual ==
  \/ CreatePad
  \/ SetGradualTarget
  \/ PeriodicStepFlux

SpecGradual ==
  Init /\ [][NextGradual]_vars /\ \A padId \in PadIds : WF_vars(StepFluxOf(padId))

\* --------------------------------- specification (selection among equals)
\* a fleet of three agents, the first and the third registered alike
NextSelect ==
  \/ RegisterParticipant
  \/ CreateTask
  \/ AssignTask
  \/ CompleteTask
  \/ FailTask

SpecSelect == Init /\ [][NextSelect]_vars

\* ------------------------------------------------------------- properties
HasEvent(evs, type, agentId) ==
  \E i \in DOMAIN evs : evs[i].type = type /\ evs[i].agentId = agentId

\* the agent has the capability, the tier, the trust (1 - normalized) and a free
\* slot that the task asks for
Qualifies(agent, task) ==
  /\ task.requiredCapability \in agent.capabilities
  /\ TierIndex(agent.maxGovernanceTier) >= TierIndex(task.requiredTier)
  /\ 100 - agent.trustScore.normalized >= task.minTrustScore
  /\ agent.currentTaskCount < agent.maxConcurrentTasks

\* this step gives task t to an agent
GetsAgent(t) ==
  /\ tasks'[t].assignedAgentId # 0
  /\ \/ t \notin DOMAIN tasks
     \/ tasks[t].assignedAgentId # tasks'[t].assignedAgentId
     \/ tasks[t].status \notin {"assigned", "running"} /\ tasks'[t].status \in {"assigned", "running"}

\* a step that gives a task to an agent gives it to a registered agent that
\* qualified for it in the state before the step
AssignStepQualified ==
  \A t \in DOMAIN tasks' :
    GetsAgent(t) =>
      LET a == tasks'[t].assignedAgentId
      IN a \in DOMAIN agents /\ Qualifies(agents[a], tasks'[t])

\* assignTask on a task that no agent qualifies for finds no candidate, fails,
\* and changes neither the agents nor the tasks
NoCandidateFails ==
  \A t \in DOMAIN tasks, recency \in RecencyInputs :
    (\A a \in DOMAIN agents : ~Qualifies(agents[a], tasks[t])) =>
      LET r == AssignTaskFn(DispatcherState, t, recency)
      IN /\ findEligibleAgents(agents, tasks[t]) = {}
         /\ ~r.success /\ r.agent = 0
         /\ r.agents = agents /\ r.tasks = tasks

\* C1: whenever the dispatcher gives a task to an agent, the agent has the
\* task's capability, a tier ceiling at or above the task's tier, a trust
\* (1 - normalized) at or above the task's minimum, and had a free slot before
\* the assignment; and when no agent satisfies these, assignTask fails with no
\* candidate and assigns nobody.
C1_AssignsOnlyQualified == [][AssignStepQualified]_vars /\ []NoCandidateFails

\* an assignTask has just failed for want of candidates while another task runs
\* on a registered agent
C1_Witness ==
  /\ last.op = "assignTask" /\ ~last.ok /\ last.why = "No eligible agents available"
  /\ \E t \in DOMAIN tasks :
       /\ tasks[t].status = "running"
       /\ tasks[t].assignedAgentId \in DOMAIN agents
       /\ agents[tasks[t].assignedAgentId].currentTaskCount = 1

\* the approvers recorded for a task
Approvers(task) == {task.approvalVotes[i] : i \in DOMAIN task.approvalVotes}

\* C2: a task is running only if it needs no approval or the number of distinct
\* approval votes recorded for it has reached requiredApprovals.
C2_RunningOnlyIfApproved ==
  \A t \in DOMAIN tasks :
    tasks[t].status = "running" =>
      \/ ~tasks[t].requiresApproval
      \/ Cardinality(Approvers(tasks[t])) >= tasks[t].requiredApprovals

\* a task that needs no approval runs while a task that needs approval waits
\* with fewer votes than it requires
C2_Witness ==
  /\ \E t \in DOMAIN tasks : tasks[t].status = "running" /\ ~tasks[t].requiresApproval
  /\ \E t \in DOMAIN tasks :
       /\ tasks[t].status = "awaiting_approval"
       /\ Len(tasks[t].approvalVotes) = 1

\* the sessions that exist before and after the step
KeptSessions == DOMAIN sessions \cap DOMAIN sessions'

\* this step records a vote in session s
VoteAccepted(s) == DOMAIN sessions'[s].votes # DOMAIN sessions[s].votes

\* session s turns approved in this step only by a recorded vote, on an active
\* session, that brings the approvals to the required number for the first time
\* while no earlier vote had brought the rejections above half the participants
ApprovedOnlyAtQuorum(s) ==
  (sessions'[s].status = "approved" /\ sessions[s].status # "approved") =>
    /\ VoteAccepted(s)
    /\ sessions[s].status = "active"
    /\ CountVotes(sessions'[s], "approve") >= RequiredVotes(sessions'[s])
    /\ \/ DOMAIN sessions[s].votes = {}
       \/ CountVotes(sessions[s], "approve") < RequiredVotes(sessions[s])
    /\ 2 * CountVotes(sessions[s], "reject") <= Len(sessions[s].participants)

\* a recorded vote after which the approvals reach the required number turns
\* session s approved
QuorumApproves(s) ==
  (VoteAccepted(s) /\ CountVotes(sessions'[s], "approve") >= RequiredVotes(sessions'[s])) =>
    sessions'[s].status = "approved"

\* C3: a session with N participants and consensus fraction f becomes approved
\* exactly at the first accepted vote after which the approve votes are at
\* least ceil(N * f), the reject votes not having exceeded N / 2 at an earlier
\* vote; it becomes approved in no other case (a new session starts active).
C3_ApprovedExactlyAtQuorum ==
  [][/\ \A s \in KeptSessions : ApprovedOnlyAtQuorum(s) /\ QuorumApproves(s)
     /\ \A s \in DOMAIN sessions' \ DOMAIN sessions : sessions'[s].status = "active"]_vars

\* a vote has just approved a session of three participants that needed two
\* approvals and had one other vote
C3_Witness ==
  /\ last.op = "castVote" /\ last.ok
  /\ \E s \in DOMAIN sessions :
       /\ sessions[s].status = "approved"
       /\ Len(sessions[s].participants) = 3
       /\ RequiredVotes(sessions[s]) = 2
       /\ CountVotes(sessions[s], "approve") = 2
       /\ Cardinality(DOMAIN sessions[s].votes) = 3

\* a castVote by an agent that has voted in the session throws and leaves the
\* votes as they are
DuplicateRejected(s, agentId, vote) ==
  LET r == CastVoteFn(sessions, agents, s, agentId, vote, now)
  IN /\ r.threw
     /\ r.sessions[s].votes = sessions[s].votes

\* the same castVote changes nothing at all and emits no event
DuplicateSilent(s, agentId, vote) ==
  LET r == CastVoteFn(sessions, agents, s, agentId, vote, now)
  IN r.sessions = sessions /\ r.events = <<>>

\* the same castVote, on an active session past its expiry time, expires the
\* session and emits the event of its conclusion
DuplicateExpires(s, agentId, vote) ==
  LET r == CastVoteFn(sessions, agents, s, agentId, vote, now)
  IN /\ r.sessions = [sessions EXCEPT ![s].status = "expired"]
     /\ r.events = <<Ev("roundtable_concluded", 0, 0, s, "expired")>>

PastExpiry(s) == sessions[s].status = "active" /\ sessions[s].expiresAt < now

\* a step never replaces or removes a recorded vote
VotesKept == \A s \in KeptSessions : \A a \in DOMAIN sessions[s].votes :
  a \in DOMAIN sessions'[s].votes /\ sessions'[s].votes[a] = sessions[s].votes[a]

\* C4 as stated: each participant has at most one recorded vote per session, and
\* a castVote by an agent that has already voted is rejected leaving the vote
\* record, the tallies, the status and the agents unchanged, with no event.
C4_DuplicateVoteNoEffect ==
  \A s \in DOMAIN sessions, a \in VoterIds, vote \in VoteInputs :
    HasVoted(sessions[s], a) => DuplicateRejected(s, a, vote) /\ DuplicateSilent(s, a, vote)

\* C4, amended: each participant has at most one recorded vote per session, and
\* a castVote by an agent that has already voted is rejected leaving the vote
\* record, the tallies and the agents unchanged; it leaves the status unchanged
\* and emits no event unless the session is active and past its expiry time, in
\* which case the rejected call expires the session and emits roundtable_concluded.
C4_DuplicateVoteRejected ==
  /\ [][VotesKept]_vars
  /\ [](\A s \in DOMAIN sessions, a \in VoterIds, vote \in VoteInputs :
          HasVoted(sessions[s], a) =>
            /\ DuplicateRejected(s, a, vote)
            /\ IF PastExpiry(s) THEN DuplicateExpires(s, a, vote)
                                ELSE DuplicateSilent(s, a, vote))

\* a second vote of a participant has just been refused on a session that is
\* still active
C4_Witness ==
  /\ last.op = "castVote" /\ ~last.ok /\ last.why = "Agent has already voted"
  /\ events = <<>>
  /\ \E s \in DOMAIN sessions : sessions[s].status = "active" /\ DOMAIN sessions[s].votes # {}

\* C5: once a session is approved, rejected or expired, no operation changes its
\* status or its votes again.
C5_ClosedSessionFrozen ==
  [][\A s \in DOMAIN sessions :
       sessions[s].status \in {"approved", "rejected", "expired"} =>
         s \in DOMAIN sessions' /\ sessions'[s] = sessions[s]]_vars

\* a vote has just been refused because the session had expired earlier, with a
\* participant that had not voted still able to vote otherwise
C5_Witness ==
  /\ last.op = "castVote" /\ ~last.ok /\ last.why = "Session is not active"
  /\ \E s \in DOMAIN sessions :
       /\ sessions[s].status = "expired"
       /\ \E i \in DOMAIN sessions[s].participants :
            LET a == sessions[s].participants[i]
            IN a \in DOMAIN agents /\ a \notin DOMAIN sessions[s].votes /\ ~CannotVote(agents[a])

\* the task failed for good: its retry count has reached its ceiling
FailedForGood(task) == task.status = "failed" /\ task.retryCount >= task.maxRetries

\* C6: a task that has failed because its retry count reached the ceiling is
\* never pending, awaiting approval, assigned or running again, and a step of
\* assignTask, approveTask, failTask or autoAssignPendingTasks leaves it failed
\* with the agent it had.
C6_FailedStaysFailed ==
  [][\A t \in DOMAIN tasks :
       FailedForGood(tasks[t]) =>
         /\ tasks'[t].status \in {"failed", "completed", "cancelled"}
         /\ last'.op \in {"assignTask", "approveTask", "failTask", "autoAssignPendingTasks"} =>
              /\ FailedForGood(tasks'[t])
              /\ tasks'[t].assignedAgentId = tasks[t].assignedAgentId]_vars

\* an assignTask has just been refused on the only task, which had failed for
\* good and which a registered agent qualifies for
C6_Witness ==
  /\ last.op = "assignTask" /\ ~last.ok /\ last.why = "Task is not pending"
  /\ DOMAIN tasks = {1}
  /\ FailedForGood(tasks[1])
  /\ \E a \in DOMAIN agents : IsEligible(agents[a], tasks[1])

Barred(agent) == agent.status \in {"suspended", "quarantined"}

\* in this state no query and no call selects a suspended or quarantined agent
BarredNeverEligible ==
  \A a \in DOMAIN agents :
    Barred(agents[a]) =>
      /\ \A i \in DOMAIN TierOrder : a \notin getAgentsForTier(agents, TierOrder[i])
      /\ \A t \in DOMAIN tasks : a \notin findEligibleAgents(agents, tasks[t])
      /\ RegistryAssignTaskFn(agents, a).threw
      /\ \A s \in DOMAIN sessions, vote \in VoteInputs :
           CastVoteFn(sessions, agents, s, a, vote, now).threw

\* a step gives no task to an agent that was suspended or quarantined, and
\* records no vote of such an agent
BarredNeverChosen ==
  /\ \A t \in DOMAIN tasks' :
       GetsAgent(t) =>
         /\ tasks'[t].assignedAgentId \in DOMAIN agents
         /\ ~Barred(agents[tasks'[t].assignedAgentId])
  /\ \A s \in KeptSessions :
       \A a \in DOMAIN sessions'[s].votes \ DOMAIN sessions[s].votes :
         a \in DOMAIN agents /\ ~Barred(agents[a])

\* C7: a suspended or quarantined agent is never selected for new work and never
\* has a vote accepted: assignTask and executeAssignment never pick it,
\* getAgentsForTier never returns it, and its castVote is rejected.
C7_BarredAgentsExcluded == []BarredNeverEligible /\ [][BarredNeverChosen]_vars

\* the vote of a quarantined participant has just been refused, while a task
\* that the agent would otherwise qualify for stays pending
C7_Witness ==
  /\ last.op = "castVote" /\ ~last.ok /\ last.why = "Agent cannot vote"
  /\ \E a \in DOMAIN agents, t \in DOMAIN tasks :
       /\ agents[a].status = "quarantined"
       /\ tasks[t].status = "pending"
       /\ tasks[t].requiredCapability \in agents[a].capabilities
       /\ agents[a].currentTaskCount < agents[a].maxConcurrentTasks

\* this step updates the trust of agent a to a vector classified critical
CriticalUpdate(a) ==
  \E i \in DOMAIN events' : events'[i] = Ev("trust_updated", a, 0, 0, "CRITICAL")

\* C8 as stated: after every trust update whose classification is critical the
\* agent is quarantined and the operation has emitted security_alert, whatever
\* the agent's status was before.
C8_CriticalAlwaysAlerts ==
  [][\A a \in DOMAIN agents :
       CriticalUpdate(a) =>
         /\ a \in DOMAIN agents'
         /\ agents'[a].status = "quarantined"
         /\ HasEvent(events', "security_alert", a)]_vars

\* C8, amended: after every trust update (updateTrustVector, or the perturbation
\* of recordTaskCompletion) whose classification is critical the agent is
\* quarantined; the operation has emitted agent_quarantined and security_alert
\* if the agent was not quarantined before, and neither of them if it was.
C8_CriticalQuarantines ==
  [][\A a \in DOMAIN agents :
       CriticalUpdate(a) =>
         /\ a \in DOMAIN agents'
         /\ agents'[a].status = "quarantined"
         /\ HasEvent(events', "security_alert", a) = (agents[a].status # "quarantined")
         /\ HasEvent(events', "agent_quarantined", a) = (agents[a].status # "quarantined")]_vars

\* the failure of a task has just brought its busy agent's trust to critical:
\* the agent is quarantined and the alert is out
C8_Witness ==
  /\ last.op = "failTask"
  /\ \E a \in DOMAIN agents :
       /\ Ev("trust_updated", a, 0, 0, "CRITICAL") \in {events[i] : i \in DOMAIN events}
       /\ HasEvent(events, "security_alert", a)
       /\ agents[a].status = "quarantined"
       /\ agents[a].trustVector = Uniform(25)

\* the next registration with the given options: rejected with the registry as
\* it is if the trust vector has not 6 elements, and else adding an idle agent
\* with no task
RegistrationChecked(options) ==
  LET id == agentSeq + 1
      r == RegisterAgentFn(agents, id, options)
  IN IF Len(Coalesce(options.initialTrustVector, DefaultTrustVector)) # 6
     THEN r.threw /\ r.agents = agents /\ r.events = <<>>
     ELSE /\ ~r.threw
          /\ DOMAIN r.agents = DOMAIN agents \cup {id}
          /\ r.agents[id].status = "idle"
          /\ r.agents[id].currentTaskCount = 0
          /\ Len(r.agents[id].trustVector) = 6

\* updateTrustVector with a vector that has not 6 elements is rejected with the
\* registry as it is
BadUpdateRejected(a, trustVector) ==
  LET r == UpdateTrustVectorFn(agents, a, trustVector)
  IN Len(trustVector) # 6 => r.threw /\ r.agents = agents /\ r.events = <<>>

\* C9: every registered agent's trust vector has exactly 6 elements;
\* registerAgent and updateTrustVector with a vector of another length are
\* rejected leaving the registry unchanged and emitting no event; a successful
\* registration yields an agent with status idle and currentTaskCount 0.
C9_TrustVectorLengthSix ==
  /\ \A a \in DOMAIN agents : Len(agents[a].trustVector) = 6
  /\ \A options \in AgentOptions(agentSeq + 1) : RegistrationChecked(options)
  /\ \A a \in DOMAIN agents, trustVector \in TrustVectorInputs : BadUpdateRejected(a, trustVector)

\* an updateTrustVector with five elements has just been rejected, with an agent
\* registered that is idle and has no task
C9_Witness ==
  /\ last.op = "updateTrustVector" /\ ~last.ok /\ events = <<>>
  /\ \E a \in DOMAIN agents : agents[a].status = "idle" /\ agents[a].currentTaskCount = 0

\* C10: a task awaiting approval runs as soon as its approvals reach
\* requiredApprovals, so no task is left awaiting approval with that many votes.
C10_ApprovedTaskRuns ==
  \A t \in DOMAIN tasks :
    tasks[t].status = "awaiting_approval" =>
      Cardinality(Approvers(tasks[t])) < tasks[t].requiredApprovals

\* C11: in every reachable state, each task awaiting approval has a roundtable
\* session whose taskId is that task (assignTask opens it when it moves the task
\* to awaiting_approval).
C11_AwaitingHasSession ==
  \A t \in DOMAIN tasks :
    tasks[t].status = "awaiting_approval" =>
      \E s \in DOMAIN sessions : sessions[s].taskId = t

\* the edges of the task state machine; assignTask and approveTask pass through
\* assigned within one call, so a step shows pending or awaiting_approval
\* followed by running
TaskEdges ==
  {<<"pending", "assigned">>, <<"assigned", "running">>, <<"pending", "running">>,
   <<"pending", "awaiting_approval">>, <<"awaiting_approval", "assigned">>,
   <<"awaiting_approval", "running">>,
   <<"running", "completed">>, <<"running", "failed">>, <<"running", "pending">>,
   <<"pending", "cancelled">>, <<"awaiting_approval", "cancelled">>,
   <<"assigned", "cancelled">>, <<"running", "cancelled">>}

\* C12: every change of a task's status follows an edge of the task state machine
\* (pending to assigned to running, pending to awaiting_approval to assigned,
\* running to completed, failed or back to pending, any non-terminal status to
\* cancelled), and a task that is completed, cancelled or failed for good keeps
\* its status under completeTask, failTask and cancelTask.
C12_StatusFollowsEdges ==
  [][\A t \in DOMAIN tasks :
       /\ tasks'[t].status # tasks[t].status =>
            <<tasks[t].status, tasks'[t].status>> \in TaskEdges
       /\ (tasks[t].status \in {"completed", "cancelled"} \/ FailedForGood(tasks[t])) =>
            tasks'[t].status = tasks[t].status]_vars

\* the tasks that hold a slot of agent a
HeldBy(a) ==
  {t \in DOMAIN tasks : tasks[t].status \in {"assigned", "running"} /\ tasks[t].assignedAgentId = a}

\* C13: in every reachable state each agent's currentTaskCount is the number of
\* tasks in status assigned or running whose assigned agent it is (complete,
\* fail, a fail that retries included, and cancel release exactly the slot the
\* task held).
C13_TaskCountMatchesHeldTasks ==
  \A a \in DOMAIN agents : agents[a].currentTaskCount = Cardinality(HeldBy(a))

\* the task is held by a registered agent
Held(t) ==
  /\ tasks[t].status \in {"assigned", "running"}
  /\ tasks[t].assignedAgentId \in DOMAIN agents

\* recordTaskCompletion has acted once on agent a between ag and ag1, with the
\* given success flag: one more task completed, the success rate smoothed, the
\* trust vector nudged up or decayed
ReportedOnce(ag, ag1, a, success) ==
  /\ a \in DOMAIN ag1
  /\ ag1[a].tasksCompleted = ag[a].tasksCompleted + 1
  /\ ag1[a].successNum = SmoothSuccess(ag[a].successNum, ag[a].tasksCompleted, success)
  /\ ag1[a].trustVector = PerturbTrust(ag[a].trustVector, success)

\* C14: completeTask and failTask on a task held by an agent, a failTask that
\* sends the task back to pending included, report the outcome to the registry:
\* recordTaskCompletion acts once on that agent with the matching success flag.
C14_OutcomeAlwaysReported ==
  \A t \in DOMAIN tasks :
    Held(t) =>
      LET a == tasks[t].assignedAgentId
      IN /\ ReportedOnce(agents, CompleteTaskFn(DispatcherState, t).agents, a, TRUE)
         /\ ReportedOnce(agents, FailTaskFn(DispatcherState, t).agents, a, FALSE)

\* the agents listed as participants of a session
ParticipantSet(session) == {session.participants[i] : i \in DOMAIN session.participants}

\* C15: castVote is rejected and records no vote when the session is not active,
\* when the session is active and its expiry has passed, when the agent is not
\* a listed participant, and when the agent is suspended or quarantined; the
\* rejected call leaves the session as it is, except that an active session
\* past its expiry becomes expired.
C15_VoteRejections ==
  \A s \in DOMAIN sessions, a \in VoterIds, vote \in VoteInputs :
    LET r == CastVoteFn(sessions, agents, s, a, vote, now)
        session == sessions[s]
        expired == session.expiresAt < now
    IN /\ session.status # "active" => r.threw /\ r.sessions = sessions
       /\ (session.status = "active" /\ expired) =>
            r.threw /\ r.sessions = [sessions EXCEPT ![s].status = "expired"]
       /\ (session.status = "active" /\ ~expired /\ a \notin ParticipantSet(session)) =>
            r.threw /\ r.sessions = sessions
       /\ (session.status = "active" /\ ~expired /\ a \in DOMAIN agents /\ Barred(agents[a])) =>
            r.threw /\ r.sessions = sessions

\* a vote has just been refused because the session, which holds a vote, had
\* passed its expiry: the call left it expired
C15_Witness ==
  /\ last.op = "castVote" /\ ~last.ok /\ last.why = "Session has expired"
  /\ \E s \in DOMAIN sessions :
       /\ sessions[s].status = "expired"
       /\ sessions[s].expiresAt < now
       /\ DOMAIN sessions[s].votes # {}
       /\ events = <<Ev("roundtable_concluded", 0, 0, s, "expired")>>

\* after a recorded vote that leaves the approvals below the required number,
\* session s is rejected if the rejections exceed half the participants or every
\* participant has voted, and active otherwise
RejectedExactlyWhenDue(s) ==
  LET after == sessions'[s]
      n == Len(after.participants)
  IN (VoteAccepted(s) /\ CountVotes(after, "approve") < RequiredVotes(after)) =>
       after.status = IF \/ 2 * CountVotes(after, "reject") > n
                         \/ ParticipantSet(after) \subseteq DOMAIN after.votes
                      THEN "rejected" ELSE "active"

\* a session of six participants with three reject votes, fewer approvals than
\* required and a participant yet to vote is active
ThreeOfSixStaysActive ==
  \A s \in DOMAIN sessions :
    (/\ Len(sessions[s].participants) = 6
     /\ CountVotes(sessions[s], "reject") = 3
     /\ CountVotes(sessions[s], "approve") < RequiredVotes(sessions[s])
     /\ Cardinality(DOMAIN sessions[s].votes) < 6) => sessions[s].status = "active"

\* C16: after an accepted vote that does not bring the approvals to the
\* threshold, the session becomes rejected if and only if the reject votes now
\* exceed half the participant count or every participant has voted, and stays
\* active otherwise; with 6 participants it is rejected on the 4th reject vote
\* and not on the 3rd.
C16_RejectedByMajorityOrExhaustion ==
  /\ [][\A s \in KeptSessions : RejectedExactlyWhenDue(s)]_vars
  /\ []ThreeOfSixStaysActive

\* the fourth reject vote has just rejected a session of six participants
C16_Witness ==
  /\ last.op = "castVote" /\ last.ok
  /\ \E s \in DOMAIN sessions :
       /\ Len(sessions[s].participants) = 6
       /\ CountVotes(sessions[s], "reject") = 4
       /\ Cardinality(DOMAIN sessions[s].votes) = 4
       /\ sessions[s].status = "rejected"

\* some session is active and not past its expiry
SomeSessionOpen ==
  \E s \in DOMAIN sessions : sessions[s].status = "active" /\ ~(sessions[s].expiresAt < now)

\* C17: an access through getActiveSessions, getSession or getStatistics leaves
\* every active session past its expiry expired, and none of them observes or
\* reports such a session as active.
C17_ExpiredOnAccess ==
  /\ last.op \in {"getActiveSessions", "getStatistics"} =>
       \A s \in DOMAIN sessions : ~PastExpiry(s)
  /\ (last.op \in {"getSession", "getStatistics"} /\ last.why = "active") => SomeSessionOpen

\* the number of participants a createRoundtable with these options has
ParticipantCount(options) ==
  IF options.specificParticipants # {}
  THEN Len(CHOOSE list \in options.specificParticipants : TRUE)
  ELSE Cardinality(getAgentsForTier(agents, options.requiredTier))

\* C18: createRoundtable fails, storing no session and emitting no event, when
\* the participants (the explicit list if given, otherwise the agents eligible
\* for the tier) are fewer than the tier's minimum signer count; otherwise it
\* creates a session that is active with an empty vote record.
C18_RoundtableNeedsSigners ==
  \A options \in RoundtableOptions :
    LET id == Cardinality(DOMAIN sessions) + 1
        r == CreateRoundtableFn(sessions, agents, id, options, now)
    IN IF ParticipantCount(options) < GOVERNANCE_TIERS[options.requiredTier].requiredTongues
       THEN r.threw /\ r.sessions = sessions /\ r.events = <<>>
       ELSE /\ ~r.threw
            /\ DOMAIN r.sessions = DOMAIN sessions \cup {id}
            /\ \A x \in DOMAIN sessions : r.sessions[x] = sessions[x]
            /\ r.sessions[id].status = "active"
            /\ r.sessions[id].votes = <<>>
            /\ Len(r.sessions[id].participants) = ParticipantCount(options)

\* a createRoundtable has just failed with a single agent registered and
\* eligible: no session is stored and no event is out
C18_Witness ==
  /\ last.op = "createRoundtable" /\ ~last.ok
  /\ sessions = <<>> /\ events = <<>>
  /\ Cardinality(getAgentsForTier(agents, "AV")) = 1

\* C19: a failure report on a running task with retry ceiling m returns it to
\* pending while the failures so far, this one included, do not exceed m, and
\* makes it failed only at the (m+1)-th failure.
C19_RetriesUpToCeiling ==
  \A t \in DOMAIN tasks :
    tasks[t].status = "running" =>
      FailTaskFn(DispatcherState, t).tasks[t].status =
        IF tasks[t].retryCount + 1 <= tasks[t].maxRetries THEN "pending" ELSE "failed"

\* agent a is a participant of an active session and has not voted in it
OpenVote(a) ==
  \E s \in DOMAIN sessions :
    /\ sessions[s].status = "active"
    /\ a \in ParticipantSet(sessions[s])
    /\ a \notin DOMAIN sessions[s].votes

\* C20: removeAgent is refused, leaving the registry unchanged, whenever a task
\* in status assigned or running is assigned to the agent or the agent is a
\* participant that has not voted in an active roundtable session.
C20_RemoveOnlyQuiescent ==
  \A a \in DOMAIN agents :
    (HeldBy(a) # {} \/ OpenVote(a)) =>
      LET r == RemoveAgentFn(agents, a)
      IN ~r.removed /\ r.agents = agents

\* the task has been running for longer than its timeoutMs
Overdue(t) ==
  /\ t \in DOMAIN tasks
  /\ tasks[t].status = "running"
  /\ \E startedAt \in tasks[t].startedAt : now > startedAt + tasks[t].timeoutMs

\* C21: a task that has been running for longer than its timeoutMs is eventually
\* failed or cancelled, with no client calling failTask or cancelTask.
C21_OverdueTaskResolved ==
  \A t \in TaskIds :
    Overdue(t) ~> (t \in DOMAIN tasks /\ tasks[t].status \in {"failed", "cancelled"})

\* C22: a subscriber that throws changes nothing. No exception escapes emitEvent,
\* so the operation runs to its end as it does with no subscriber throwing, and
\* every subscriber is called with every event of the operation, in order.
C22_ThrowingSubscriberIsolated ==
  LET d == EmitAll(eventListeners, events)
      quiet == EmitAll([i \in DOMAIN eventListeners |-> "returns"], events)
  IN /\ ~d.escaped
     /\ \A i \in DOMAIN eventListeners : d.received[i] = events
     /\ d = quiet

\* a subscriber that throws is followed by another, and the operation emitted
\* several events
C22_Witness ==
  /\ Len(eventListeners) = 2
  /\ eventListeners[1] = "throws"
  /\ eventListeners[2] = "returns"
  /\ Len(events) >= 2

\* the events evs hold one of this type, about this task or session, with this detail
Reports(evs, type, taskId, sessionId, info) ==
  \E i \in DOMAIN evs :
    /\ evs[i].type = type
    /\ evs[i].taskId = taskId
    /\ evs[i].sessionId = sessionId
    /\ evs[i].info = info

\* C23: every terminal failure emits an event that carries its reason: an
\* assignTask that finds no eligible agent emits an event about the task, a
\* failTask that exhausts the retries emits the final task_failed, and a vote
\* that rejects the session emits roundtable_concluded with the result rejected.
C23_TerminalFailureEmitsReason ==
  /\ \A t \in DOMAIN tasks, recency \in RecencyInputs :
       LET r == AssignTaskFn(DispatcherState, t, recency)
       IN (~r.success /\ r.reason = "No eligible agents available")
            => \E i \in DOMAIN r.events : r.events[i].taskId = t
  /\ \A t \in DOMAIN tasks :
       LET r == FailTaskFn(DispatcherState, t)
       IN (~r.threw /\ r.tasks[t].status = "failed")
            => Reports(r.events, "task_failed", t, 0, "final")
  /\ \A s \in DOMAIN sessions, a \in AgentIds, vote \in VoteInputs :
       LET r == CastVoteFn(sessions, agents, s, a, vote, now)
       IN (sessions[s].status = "active" /\ r.sessions[s].status = "rejected")
            => Reports(r.events, "roundtable_concluded", 0, s, "rejected")

\* C24: the flux value nu of every pad stays within [0, 1], whatever flux
\* operations are applied, with whatever targets and ODE parameters.
C24_FluxWithinUnitInterval ==
  \A padId \in DOMAIN pads : 0 <= pads[padId].nu /\ pads[padId].nu <= NuOne

\* C27: swarm membership is bounded and consistent: no swarm holds more than its
\* maxPads pads, a pad is in at most one swarm, the swarmId of a pad names the
\* swarm exactly when the pad is in that swarm's member set, and an
\* addPadToSwarm that is rejected changes no membership.
C27_MembershipBoundedConsistent ==
  /\ \A swarmId \in DOMAIN swarms :
       /\ Cardinality(swarmPads[swarmId]) <= swarms[swarmId].maxPads
       /\ swarmPads[swarmId] \subseteq DOMAIN pads
  /\ \A padId \in DOMAIN pads :
       /\ Cardinality({swarmId \in DOMAIN swarmPads : padId \in swarmPads[swarmId]}) <= 1
       /\ \A swarmId \in DOMAIN swarmPads :
            pads[padId].swarmId = swarmId <=> padId \in swarmPads[swarmId]
       /\ pads[padId].swarmId \in DOMAIN swarmPads \cup {0}
  /\ \A swarmId \in SwarmIds, padId \in PadIds :
       LET r == AddPadToSwarmFn(pads, swarms, swarmPads, swarmId, padId)
       IN ~r.added => r.pads = pads /\ r.swarmPads = swarmPads

\* an add has just been rejected while a swarm is full and a pad sits outside it
C27_Witness ==
  /\ last.op = "addPadToSwarm" /\ ~last.ok
  /\ \E swarmId \in DOMAIN swarms, padId \in DOMAIN pads :
       /\ Cardinality(swarmPads[swarmId]) = swarms[swarmId].maxPads
       /\ pads[padId].swarmId # swarmId

\* C25: an envelope that verifyRWP2 has accepted once is not accepted again: a
\* second presentation of the same envelope, with the same nonce, is rejected.
C25_ReplayRejected ==
  \A env \in DOMAIN accepted : accepted[env] <= 1

\* the tiers a trust level permits
PermittedTiers(level) ==
  IF level = "HIGH" THEN {"KO", "AV", "RU", "CA", "UM", "DR"}
  ELSE IF level = "MEDIUM" THEN {"KO", "AV", "RU", "CA"}
  ELSE IF level = "LOW" THEN {"KO", "AV"}
  ELSE {}

\* C26: getAgentsForTier(tier) returns exactly the registered agents that are
\* neither suspended nor quarantined, whose ceiling is at least the tier, and
\* whose trust level permits the tier: HIGH every tier, MEDIUM KO to CA, LOW KO
\* and AV, CRITICAL none.
C26_TierQueryExact ==
  \A i \in DOMAIN TierOrder :
    getAgentsForTier(agents, TierOrder[i]) =
      {a \in DOMAIN agents :
         /\ ~Barred(agents[a])
         /\ TierIndex(agents[a].maxGovernanceTier) >= i
         /\ TierOrder[i] \in PermittedTiers(agents[a].trustScore.level)}

\* the query has just run over two agents of ceiling DR that are not barred: one
\* of CRITICAL trust and one of LOW trust
C26_Witness ==
  /\ last.op = "getAgentsForTier"
  /\ \E a, b \in DOMAIN agents :
       /\ agents[a].maxGovernanceTier = "DR" /\ agents[b].maxGovernanceTier = "DR"
       /\ ~Barred(agents[a]) /\ ~Barred(agents[b])
       /\ agents[a].trustScore.level = "CRITICAL"
       /\ agents[b].trustScore.level = "LOW"

\* C30: canPerformAction never allows a suspended or quarantined agent; it
\* allows only an agent that exists, whose ceiling is at least the action's
\* tier and whose trust is at least that tier's minimum; and an allowed action
\* requires a roundtable exactly when its tier is UM or DR.
C30_BarredAgentNeverAllowed ==
  \A a \in AgentIds, action \in ActionInputs :
    LET r == CanPerformActionFn(agents, a, action)
    IN /\ (a \in DOMAIN agents /\ Barred(agents[a])) => ~r.allowed
       /\ r.allowed =>
            /\ a \in DOMAIN agents
            /\ TierIndex(agents[a].maxGovernanceTier) >= TierIndex(r.requiredTier)
            /\ 100 - agents[a].trustScore.normalized
                 >= GOVERNANCE_TIERS[r.requiredTier].minTrustScore
            /\ r.requiresRoundtable <=> r.requiredTier \in {"UM", "DR"}

\* the statuses of the agents of ag that are suspended or quarantined now have
\* not become idle or busy
BarredKept(ag) ==
  \A a \in DOMAIN agents :
    (Barred(agents[a]) /\ a \in DOMAIN ag) => ag[a].status \notin {"idle", "busy"}

\* C28: no dispatcher operation (assign, approve, complete, fail, cancel) changes
\* the status of a suspended or quarantined agent to idle or busy; cancelling or
\* completing the last task such an agent holds leaves its status as it is.
C28_BarredStatusPersists ==
  \A t \in DOMAIN tasks :
    /\ \A recency \in RecencyInputs : BarredKept(AssignTaskFn(DispatcherState, t, recency).agents)
    /\ \A a \in AgentIds : BarredKept(ApproveTaskFn(DispatcherState, t, a).agents)
    /\ BarredKept(CompleteTaskFn(DispatcherState, t).agents)
    /\ BarredKept(FailTaskFn(DispatcherState, t).agents)
    /\ BarredKept(CancelTaskFn(DispatcherState, t).agents)

\* C29: approveTask by an agent id that is unknown, suspended or quarantined is
\* rejected and adds no approval.
C29_ApproverMustBeInGoodStanding ==
  \A t \in DOMAIN tasks, a \in AgentIds \cup {MaxAgents + 1} :
    (a \notin DOMAIN agents \/ Barred(agents[a])) =>
      LET r == ApproveTaskFn(DispatcherState, t, a)
      IN ~r.success /\ r.tasks[t].approvalVotes = tasks[t].approvalVotes

\* the ids in the dispatch queue
Queued == {taskQueue[i] : i \in DOMAIN taskQueue}

\* C31: the dispatch queue holds exactly the tasks whose status is not terminal,
\* each once; so every pending task is returned by getPendingTasks.
C31_QueueHoldsLiveTasks ==
  /\ Queued = {t \in DOMAIN tasks : tasks[t].status \notin {"completed", "failed", "cancelled"}}
  /\ \A i, j \in DOMAIN taskQueue : taskQueue[i] = taskQueue[j] => i = j
  /\ \A t \in DOMAIN tasks :
       tasks[t].status = "pending" =>
         \E i \in DOMAIN getPendingTasks(DispatcherState) :
           getPendingTasks(DispatcherState)[i] = t

\* the score of the claim, 40 * trust + 30 * successRate + 20 * spare capacity + recency,
\* of agent a against that of agent b, both over the common denominator
\* 100 * 10^k * (slots of a) * (slots of b)
WeightedScore(a, b, recency) ==
  LET k == Max(agents[a].tasksCompleted, agents[b].tasksCompleted)
      m == agents[a].maxConcurrentTasks
      mOther == agents[b].maxConcurrentTasks
  IN 40 * (100 - agents[a].trustScore.normalized) * Pow10(k) * m * mOther
     + 30 * 100 * agents[a].successNum * Pow10(k - agents[a].tasksCompleted) * m * mOther
     + 20 * 100 * (m - agents[a].currentTaskCount) * Pow10(k) * mOther
     + 100 * recency[a] * Pow10(k) * m * mOther

\* the pending tasks that some agent is eligible for
Assignable == {t \in DOMAIN tasks : /\ tasks[t].status = "pending"
                                     /\ findEligibleAgents(agents, tasks[t]) # {}}

C33_DefaultQuorumIsSignerCount ==
  \A tier \in DOMAIN GOVERNANCE_TIERS :
    LET r == CreateRoundtableFn(sessions, agents, 1, RoundtableOpts(tier, {}, {}, {}), now)
    IN ~r.threw => RequiredVotes(r.sessions[1]) = GOVERNANCE_TIERS[tier].requiredTongues

\* the agents named by a list of participants
Named(participants) == {participants[i] : i \in DOMAIN participants}

\* C34: a session that createRoundtable opens has at least the signers of its tier
\* (requiredTongues) as distinct participants, each of them a registered agent.
C34_ParticipantsDistinctAndRegistered ==
  \A options \in RoundtableOptions :
    LET id == Cardinality(DOMAIN sessions) + 1
        r == CreateRoundtableFn(sessions, agents, id, options, now)
    IN ~r.threw =>
         /\ Named(r.sessions[id].participants) \subseteq DOMAIN agents
         /\ Cardinality(Named(r.sessions[id].participants))
              >= GOVERNANCE_TIERS[options.requiredTier].requiredTongues

\* C35: syncSwarm leaves each member of the swarm with the coherence score
\* max(0, 1 - 2 * |nu - mean|), mean being the swarm's average nu at the sync.
C35_CoherenceTwiceDistance ==
  \A swarmId \in DOMAIN swarms \cap DOMAIN swarmPads :
    LET mean == GetSwarmStateFn(pads, swarmPads, swarmId).avgNu
        synced == SyncSwarmFn(pads, swarms, swarmPads, swarmId)
    IN \A id \in getSwarmPads(pads, swarmPads, swarmId) :
         synced[id].coherenceScore = Max(0, NuOne - 2 * Abs(pads[id].nu - mean))

\* the label of a flux value by the boundaries 0.8, 0.5 and 0.1
LabelOf(nu) ==
  IF nu >= 8000 THEN "POLLY"
  ELSE IF nu >= 5000 THEN "QUASI"
  ELSE IF nu >= 1000 THEN "DEMI"
  ELSE "COLLAPSED"

\* a pad as a flux step, a boost or a decay may leave it
Stepped(padId) ==
  (IF pads[padId].targetNu = {} THEN {} ELSE {StepFluxFn(pads[padId])})
    \cup {BoostPadFluxFn(pads[padId], amount) : amount \in BoostInputs}
    \cup {DecayPadFluxFn(pads[padId], amount) : amount \in DecayInputs}
    \cup {StepFluxODEFn(pads, swarms, swarmPads, fluxParams, swarmId)[padId] :
            swarmId \in {x \in DOMAIN swarms \cap DOMAIN swarmPads :
                           padId \in getSwarmPads(pads, swarmPads, x)}}

\* C36: a flux step, a boost or a decay leaves a pad labelled POLLY from nu 0.8,
\* QUASI from 0.5 to 0.8, DEMI from 0.1 to 0.5 and COLLAPSED below 0.1.
C36_LabelByThresholds ==
  \A padId \in DOMAIN pads :
    \A pad \in Stepped(padId) : pad.dimensionalState = LabelOf(pad.nu)

\* the step takes task t into the status s from another status
Enters(t, s) == tasks[t].status # s /\ tasks'[t].status = s

\* what a step may do to the retry counter and the status of task t
RetriesSpent(t) ==
  /\ tasks'[t].retryCount >= tasks[t].retryCount
  /\ Enters(t, "pending") => tasks'[t].retryCount = tasks[t].retryCount + 1
  /\ Enters(t, "running") =>
       /\ tasks[t].status = "pending"
       /\ tasks'[t].retryCount = tasks[t].retryCount
       /\ tasks[t].retryCount < Max(1, tasks[t].maxRetries)

\* C37: a task enters running at most max(1, maxRetries) times. The retry counter
\* never decreases, every return to pending adds one to it, and a task enters running
\* only from pending and with a counter below max(1, maxRetries): the entries happen
\* at different values of the counter, all of them below that ceiling.
C37_RunsBoundedByRetries == [][\A t \in DOMAIN tasks : RetriesSpent(t)]_vars

\* a task that went back to pending runs again, for the last time its retries allow
C37_Witness ==
  \E t \in DOMAIN tasks :
    /\ last.op = "assignTask" /\ last.ok
    /\ tasks[t].status = "running"
    /\ tasks[t].retryCount >= 1
    /\ tasks[t].retryCount = Max(1, tasks[t].maxRetries) - 1

\* C38: every pad's dimensional label is the one getDimensionalState gives for its nu.
C38_LabelAgreesWithNu ==
  \A padId \in DOMAIN pads :
    pads[padId].dimensionalState = getDimensionalState(pads[padId].nu)

\* the tiers of the keywords that an action name contains
KeywordTiers(action) ==
  {ActionTiers[i][2] : i \in {j \in DOMAIN ActionTiers : ActionTiers[j][1] \in action}}

\* C39: the tier that canPerformAction takes from getRequiredTier for an action is
\* not below that of any keyword the action's name contains, and it is RU for an
\* action without a keyword.
C39_HighestKeywordTier ==
  \A agentId \in DOMAIN agents, action \in ActionInputs :
    LET requiredTier == CanPerformActionFn(agents, agentId, action).requiredTier
    IN /\ requiredTier = getRequiredTier(action)
       /\ \A tier \in KeywordTiers(action) : TierIndex(requiredTier) >= TierIndex(tier)
       /\ KeywordTiers(action) = {} => requiredTier = "RU"

\* C40: a pad with a target reaches it under repeated stepFlux: the target is
\* cleared and the rate is back to 0 after finitely many steps.
C40_TargetReached ==
  \A padId \in PadIds :
    (padId \in DOMAIN pads /\ pads[padId].targetNu # {})
      ~> (padId \in DOMAIN pads /\ pads[padId].targetNu = {} /\ pads[padId].fluxRate = 0)

====
